---- MODULE Spec2Model ----
(***************************************************************************)
(* Hyperspace Master (the Coordinator): sessions with leases, the node     *)
(* map, open handles, the per-node shared/exclusive lock with its pending  *)
(* queue, and event notification, as implemented by class Master in        *)
(* src/src/cc/Hypertable/RangeServer/RequestHandlerUpdate.cc.              *)
(*                                                                         *)
(* Every request handler is one action.  The session-expiry loop is three  *)
(* actions (pop a session, destroy one handle, finish) because it runs on  *)
(* its own thread and holds only the session's mutex between iterations.   *)
(* A failed assert() ends the process: the action sets aborted and no      *)
(* handler runs afterwards.                                                *)
(***************************************************************************)
EXTENDS Integers, Sequences, FiniteSets, TLC

\* ------------------------------------------------------------------ bounds
MaxSessions == 2      \* sessions created per run
MaxHandles  == 3      \* handles created per run
MaxEvents   == 5      \* events created per run
MaxGen      == 4      \* largest lock generation a node reaches
MaxTime     == 3      \* clock ticks
MaxRestarts == 1      \* restarts of the Master process
MaxPending  == 2      \* longest pending lock queue of a node

\* mLeaseInterval, read from Hyperspace.Lease.Interval, in clock ticks
LeaseInterval == 1

\* ------------------------------------------------------------------ names
\* A name is the sequence of its components: "/d/x" is <<"d", "x">>.
Paths == { <<"d">>, <<"d", "x">> }

\* the Master processes that can be started on the base directory; process 1
\* is the one whose state the variables of the Master describe
Procs == {1, 2}

\* worker threads that run the handlers, and the timer thread that runs
\* RemoveExpiredSessions
Workers == {1, 2}
ExpiryThread == 3
Threads == Workers \cup {ExpiryThread}

\* attribute names and values of AttrSet; "lock.generation" is the name
\* Open and Lock use on the same file
AttrKeys == {"k", "lock.generation"}
AttrValues == {1, 2}

LOCK_MODE_SHARED    == 1
LOCK_MODE_EXCLUSIVE == 2
LockModes == {LOCK_MODE_SHARED, LOCK_MODE_EXCLUSIVE}

EventKinds == {"ATTR_SET", "ATTR_DEL", "CHILD_NODE_ADDED", "CHILD_NODE_REMOVED",
               "LOCK_ACQUIRED", "LOCK_RELEASED", "LOCK_GRANTED"}

\* the open-flag combinations and event masks requests are drawn from
OpenFlagSets == { {"READ"},
                  {"READ", "WRITE", "LOCK"},
                  {"CREATE", "READ", "WRITE", "LOCK"},
                  {"CREATE", "EXCL", "READ", "WRITE", "LOCK"},
                  {"CREATE", "TEMP", "READ", "WRITE", "LOCK"} }
EventMasks == { {}, EventKinds }

VARIABLES
  now,               \* wall clock (boost::xtime_get)
  fs,                \* backing filesystem under mBaseDir: kind and lock.generation xattr per path
  baseGeneration,    \* "generation" xattr of the base directory (0: absent)
  mGeneration,
  mNextHandleNumber,
  mNextSessionId,
  mNextEventId,
  mSessionMap,       \* session id -> SessionData
  mSessionHeap,      \* the sessions in the expiry heap
  mHandleMap,        \* handle id -> HandleData
  mNodeMap,          \* name -> NodeData
  expiry,            \* position of RemoveExpiredSessions: session being expired, handles left
  inflight,          \* handles inside DestroyHandle, before its mNodeMapMutex block
  aborted,           \* an assert() failed
  resp,              \* the response of the last handler
  emitted,           \* the events the last handler created, in order
  priorSessions,     \* session ids issued by earlier runs of the process
  startPc,           \* per process: how far it is in Master::Master
  startGen,          \* per process: its mGeneration while it starts
  baseLock,          \* the process whose descriptor holds the flock on the base directory (0: none)
  attrInflight,      \* AttrSet and AttrDel calls between their event id and its delivery
  threads,           \* per thread: the mutex operations left in its handler, the mutexes it holds
  eventReg,          \* per worker: the value of mNextEventId it has read and not yet written back
  xattrs             \* extended attributes of the file behind each name, set through handles

\* the variables of the processes that start on the base directory
auxVars == <<startPc, startGen, baseLock, attrInflight, threads, eventReg>>

vars == <<now, fs, baseGeneration, mGeneration, mNextHandleNumber, mNextSessionId,
          mNextEventId, mSessionMap, mSessionHeap, mHandleMap, mNodeMap, expiry,
          inflight, aborted, resp, emitted, priorSessions, auxVars, xattrs>>

\* ------------------------------------------------------------------ helpers
Min(S) == CHOOSE x \in S : \A y \in S : x <= y

RECURSIVE SetToSeq(_)
SetToSeq(S) == IF S = {} THEN <<>> ELSE LET m == Min(S) IN <<m>> \o SetToSeq(S \ {m})

Last(s) == s[Len(s)]
Front(s) == SubSeq(s, 1, Len(s) - 1)

NoResp == [op |-> "none", session |-> 0, handle |-> 0, status |-> "none", gen |-> 0, created |-> FALSE]

Resp(op, sid, h, status) ==
  [op |-> op, session |-> sid, handle |-> h, status |-> status, gen |-> 0, created |-> FALSE]

\* new SessionData(addr, mLeaseInterval, sessionId)
NewSessionData(t) ==
  [expireTime |-> t + LeaseInterval, expired |-> FALSE, handles |-> {}, notifications |-> <<>>]

\* SessionData::IsExpired(now)
IsExpired(sd, t) == sd.expired \/ sd.expireTime < t

\* new NodeData()
NewNodeData ==
  [fd |-> FALSE, linked |-> FALSE, lockGeneration |-> 0, currentLockMode |-> 0,
   exclusiveLockHandle |-> 0, sharedLockHandles |-> {}, pendingLockRequests |-> <<>>,
   handleMap |-> {}, ephemeral |-> FALSE]

\* no call of the worker is between its read and its write of mNextEventId
NoReg == [id |-> 0]

\* ------------------------------------------------------------------ xattrs
\* xattrs[p] holds the attributes of the file the descriptor of node p is
\* open on, or of the file linked at p when there is no such descriptor.
\* "lock.generation" of a linked file is fs[p].lockGen; xattrs keeps it
\* only for a file that is unlinked and still open.  0: attribute absent.
NoAttrs == [k \in AttrKeys |-> 0]

FdOpen(nodes, p) == p \in DOMAIN nodes /\ nodes[p].fd

\* the descriptor of node p is open on a file that unlink removed
Orphan(nodes, p) == FdOpen(nodes, p) /\ ~nodes[p].linked

\* The attributes after a handler took the filesystem and the node map from
\* (f0, n0) to (f1, n1): a file neither linked nor open is gone with its
\* attributes; unlink leaves the attributes with the open descriptor; the
\* Fsetxattr of a new lock generation reaches the unlinked file too.
XattrsAfter(x, f0, n0, f1, n1) ==
  [p \in Paths |->
     IF ~FdOpen(n1, p) /\ (f1[p].kind = "none" \/ Orphan(n0, p)) THEN NoAttrs
     ELSE IF Orphan(n1, p) /\ ~Orphan(n0, p)
       THEN [x[p] EXCEPT !["lock.generation"] =
               IF p \in DOMAIN n0 THEN f0[p].lockGen ELSE n1[p].lockGeneration]
     ELSE IF Orphan(n1, p) /\ n1[p].lockGeneration # n0[p].lockGeneration
       THEN [x[p] EXCEPT !["lock.generation"] = n1[p].lockGeneration]
     ELSE x[p]]

\* ------------------------------------------------------------------ events
\* A delivery state threads the session map, the next event id and the
\* events created so far through the deliveries of one handler.
Delivery(sessions, nextId) == [sess |-> sessions, next |-> nextId, out |-> <<>>]

RECURSIVE AddNotifications(_, _, _, _)
AddNotifications(sessions, handles, hseq, ev) ==
  IF hseq = <<>> THEN sessions
  ELSE LET h == Head(hseq)
           s == handles[h].session
           n == [handle |-> h, event |-> ev.id, kind |-> ev.kind]
       IN AddNotifications(
            [sessions EXCEPT ![s].notifications = Append(@, n)],
            handles, Tail(hseq), ev)

\* new Event(mNextEventId++, ...); DeliverEventNotifications(node, eventPtr)
DeliverEventNotifications(d, nodes, handles, p, kind, arg) ==
  LET to == {h \in nodes[p].handleMap : kind \in handles[h].eventMask}
      ev == [id |-> d.next, kind |-> kind, node |-> p, arg |-> arg, handle |-> 0,
             to |-> to, count |-> Cardinality(to)]
  IN [sess |-> AddNotifications(d.sess, handles, SetToSeq(to), ev),
      next |-> d.next + 1,
      out  |-> Append(d.out, ev)]

\* new EventLockGranted(mNextEventId++, mode, gen); DeliverEventNotification(handlePtr, eventPtr)
DeliverEventNotification(d, handles, h, mode, gen) ==
  LET ev == [id |-> d.next, kind |-> "LOCK_GRANTED", node |-> handles[h].node,
             arg |-> <<mode, gen>>, handle |-> h, to |-> {h}, count |-> 0]
  IN [sess |-> AddNotifications(d.sess, handles, <<h>>, ev),
      next |-> d.next + 1,
      out  |-> Append(d.out, ev)]

\* Master::FindParentNode: lastSlash > 0 and the parent is in the node map
HasParentNode(nodes, name) == Len(name) > 1 /\ Front(name) \in DOMAIN nodes
ParentName(name) == Front(name)
ChildName(name) == Last(name)

\* ------------------------------------------------------------------ initial state
Init ==
  /\ now = 0
  /\ fs = [p \in Paths |-> [kind |-> "none", lockGen |-> 0]]
  /\ baseGeneration = 1
  /\ mGeneration = 1
  /\ mNextHandleNumber = 1
  /\ mNextSessionId = 1
  /\ mNextEventId = 1
  /\ mSessionMap = <<>>
  /\ mSessionHeap = {}
  /\ mHandleMap = <<>>
  /\ mNodeMap = <<>>
  /\ expiry = [session |-> 0, todo |-> {}]
  /\ inflight = <<>>
  /\ aborted = FALSE
  /\ resp = NoResp
  /\ emitted = <<>>
  /\ priorSessions = {}
  /\ startPc = [p \in Procs |-> IF p = 1 THEN "serving" ELSE "idle"]
  /\ startGen = [p \in Procs |-> IF p = 1 THEN 1 ELSE 0]
  /\ baseLock = 1
  /\ attrInflight = <<>>
  /\ threads = [t \in Threads |-> [prog |-> <<>>, held |-> {}]]
  /\ eventReg = [t \in Workers |-> NoReg]
  /\ xattrs = [p \in Paths |-> NoAttrs]

\* ------------------------------------------------------------------ sessions
CreateSession ==
  /\ ~aborted
  /\ mNextSessionId <= MaxSessions
  /\ LET sessionId == mNextSessionId IN
       /\ mNextSessionId' = mNextSessionId + 1
       /\ mSessionMap' = (sessionId :> NewSessionData(now)) @@ mSessionMap
       /\ mSessionHeap' = mSessionHeap \cup {sessionId}
       /\ resp' = Resp("create_session", sessionId, 0, "OK")
  /\ emitted' = <<>>
  /\ UNCHANGED <<now, fs, baseGeneration, mGeneration, mNextHandleNumber, mNextEventId,
                 mHandleMap, mNodeMap, expiry, inflight, aborted, priorSessions, auxVars, xattrs>>

\* ------------------------------------------------------------------ filesystem
\* stat(mBaseDir + name): the kind of the entry, or the errno
Stat(f, name) ==
  IF Len(name) > 1 /\ f[Front(name)].kind = "none" THEN "ENOENT"
  ELSE IF Len(name) > 1 /\ f[Front(name)].kind = "file" THEN "ENOTDIR"
  ELSE IF f[name].kind = "none" THEN "ENOENT"
  ELSE f[name].kind

\* a new entry can be made at name: its directory exists
ParentIsDir(f, name) == Len(name) = 1 \/ f[Front(name)].kind = "dir"

HasChildren(f, name) == \E p \in Paths : Len(p) > 1 /\ Front(p) = name /\ f[p].kind # "none"

\* Master::ReportError: errno to Hyperspace error
ReportError(errno) ==
  CASE errno \in {"ENOTDIR", "ENAMETOOLONG", "ENOENT"} -> "BAD_PATHNAME"
    [] errno \in {"EACCES", "EPERM"} -> "PERMISSION_DENIED"
    [] errno = "EEXIST" -> "FILE_EXISTS"
    [] errno = "ENOATTR" -> "ATTR_NOT_FOUND"
    [] OTHER -> "IO_ERROR"

\* the counters and queues stay within the bounds of the model
WithinBounds(nodes, nextEventId) ==
  /\ nextEventId <= MaxEvents + 1
  /\ \A p \in DOMAIN nodes :
       /\ nodes[p].lockGeneration <= MaxGen
       /\ Len(nodes[p].pendingLockRequests) <= MaxPending

\* the expiry loop holds the mutex of the session it is expiring
SessionMutexFree(sid) == expiry.session # sid

Respond(r) ==
  /\ resp' = r
  /\ emitted' = <<>>
  /\ UNCHANGED <<now, fs, baseGeneration, mGeneration, mNextHandleNumber, mNextSessionId,
                 mNextEventId, mSessionMap, mSessionHeap, mHandleMap, mNodeMap, expiry, inflight,
                 aborted, priorSessions, auxVars, xattrs>>

\* an assert() failed or freed memory was used: the process dies
Abort(r) ==
  /\ aborted' = TRUE
  /\ resp' = r
  /\ emitted' = <<>>
  /\ UNCHANGED <<now, fs, baseGeneration, mGeneration, mNextHandleNumber, mNextSessionId,
                 mNextEventId, mSessionMap, mSessionHeap, mHandleMap, mNodeMap, expiry, inflight,
                 priorSessions, auxVars, xattrs>>

\* ------------------------------------------------------------------ open
\* an open(2) that does not honour O_EXCL
OpenErrnoNoExcl(f, name, flags, stat) ==
  IF stat \in {"file", "dir"}
  THEN IF stat = "dir" /\ "CREATE" \in flags THEN "EISDIR" ELSE "OK"
  ELSE IF "CREATE" \in flags /\ ParentIsDir(f, name) THEN "OK"
       ELSE "ENOENT"

\* errno of open(absName, oflags, 0644), or "OK"
OpenErrno(f, name, flags, stat) ==
  IF stat \in {"file", "dir"}
  THEN IF "CREATE" \in flags /\ "EXCL" \in flags THEN "EEXIST"
       ELSE IF stat = "dir" /\ "CREATE" \in flags THEN "EISDIR"
       ELSE "OK"
  ELSE IF "CREATE" \in flags /\ ParentIsDir(f, name) THEN "OK"
       ELSE "ENOENT"

\* the error Open answers with, or "OK"
OpenStatus(sid, name, flags) ==
  LET stat  == Stat(fs, name)
      inMap == name \in DOMAIN mNodeMap
      existed == stat \in {"file", "dir"}
  IN IF sid \notin DOMAIN mSessionMap THEN "EXPIRED_SESSION"
     ELSE IF inMap /\ "CREATE" \in flags /\ "EXCL" \in flags THEN "FILE_EXISTS"
     ELSE IF stat = "ENOTDIR" THEN ReportError("ENOTDIR")
     ELSE IF inMap /\ mNodeMap[name].fd THEN "OK"
     ELSE IF inMap /\ "TEMP" \in flags /\ existed /\ ~mNodeMap[name].ephemeral THEN "FILE_EXISTS"
     ELSE IF OpenErrno(fs, name, flags, stat) # "OK"
          THEN ReportError(OpenErrno(fs, name, flags, stat))
     ELSE "OK"

Open(sid, name, flags, eventMask) ==
  /\ ~aborted
  /\ SessionMutexFree(sid)
  /\ LET status == OpenStatus(sid, name, flags) IN
     IF status # "OK" THEN Respond(Resp("open", sid, 0, status))
     ELSE
       LET stat    == Stat(fs, name)
           inMap   == name \in DOMAIN mNodeMap
           existed == stat \in {"file", "dir"}
           needFd  == ~inMap \/ ~mNodeMap[name].fd
           \* open(2) with O_CREAT makes the file
           fs1     == IF needFd /\ ~existed
                      THEN [fs EXCEPT ![name] = [kind |-> "file", lockGen |-> 0]]
                      ELSE fs
           \* Fgetxattr(fd, "lock.generation"), created as 1 when absent
           gen     == IF fs1[name].lockGen = 0 THEN 1 ELSE fs1[name].lockGen
           fs2     == IF ~inMap THEN [fs1 EXCEPT ![name].lockGen = gen] ELSE fs1
           temp    == "TEMP" \in flags
           \* unlink(absName) of an ephemeral node; it fails on a directory
           unlinked == ~inMap /\ temp /\ fs2[name].kind = "file"
           fs3     == IF unlinked
                      THEN [fs2 EXCEPT ![name] = [kind |-> "none", lockGen |-> 0]]
                      ELSE fs2
           node0   == IF inMap THEN mNodeMap[name]
                      ELSE [NewNodeData EXCEPT !.lockGeneration = gen, !.ephemeral = temp]
           node1   == IF needFd
                      THEN [node0 EXCEPT !.fd = TRUE, !.linked = ~unlinked]
                      ELSE node0
           created == needFd /\ ~existed
           handle  == mNextHandleNumber + 1
           hd      == [node |-> name, openFlags |-> flags, eventMask |-> eventMask,
                       session |-> sid, locked |-> FALSE, dangling |-> FALSE]
           handles == (handle :> hd) @@ mHandleMap
           nodes1  == (name :> node1) @@ mNodeMap
           sess1   == [mSessionMap EXCEPT ![sid].handles = @ \cup {handle}]
           d0      == Delivery(sess1, mNextEventId)
           d1      == IF created /\ HasParentNode(nodes1, name)
                      THEN DeliverEventNotifications(d0, nodes1, handles, ParentName(name),
                                                     "CHILD_NODE_ADDED", ChildName(name))
                      ELSE d0
           nodes2  == [nodes1 EXCEPT ![name].handleMap = @ \cup {handle}]
       IN /\ mNextHandleNumber < MaxHandles + 1
          /\ WithinBounds(nodes2, d1.next)
          /\ fs' = fs3
          /\ mNextHandleNumber' = handle
          /\ mHandleMap' = handles
          /\ mNodeMap' = nodes2
          /\ mSessionMap' = d1.sess
          /\ mNextEventId' = d1.next
          /\ emitted' = d1.out
          /\ resp' = [Resp("open", sid, handle, "OK") EXCEPT !.created = created]
          /\ xattrs' = XattrsAfter(xattrs, fs, mNodeMap, fs', mNodeMap')
          /\ UNCHANGED <<now, baseGeneration, mGeneration, mNextSessionId, mSessionHeap,
                         expiry, inflight, aborted, priorSessions, auxVars>>

\* ------------------------------------------------------------------ close
\* Master::RemoveHandleData
RemoveHandleData(handles, h) == [x \in DOMAIN handles \ {h} |-> handles[x]]

\* NodeData::RemoveHandle, the first statement of Master::DestroyHandle
NodeRemoveHandle(nodes, name, h) == [nodes EXCEPT ![name].handleMap = @ \ {h}]

\* mNodeMap.erase(nodeIter)
EraseNode(nodes, name) == [p \in DOMAIN nodes \ {name} |-> nodes[p]]

\* The block of Master::DestroyHandle under mNodeMapMutex, run on the node
\* record found at name.  Yields the node map and the delivery state.
DestroyHandle(nodes, handles, d, name) ==
  IF nodes[name].handleMap # {}
  THEN [nodes |-> nodes, d |-> d]
  ELSE
    \* node->Close()
    LET nodes1 == [nodes EXCEPT ![name].fd = FALSE, ![name].linked = FALSE]
    IN IF ~nodes1[name].ephemeral
       THEN [nodes |-> nodes1, d |-> d]
       ELSE
         LET d1 == IF HasParentNode(nodes1, name)
                   THEN DeliverEventNotifications(d, nodes1, handles, ParentName(name),
                                                  "CHILD_NODE_REMOVED", ChildName(name))
                   ELSE d
         IN [nodes |-> EraseNode(nodes1, name), d |-> d1]

\* The same block run through a handle whose NodeData was erased and freed
\* in the meantime, when the freed memory still reads as the node did when
\* it was erased: no handles, ephemeral.
DestroyHandleStale(nodes, handles, d, name) ==
  LET d1 == IF HasParentNode(nodes, name)
            THEN DeliverEventNotifications(d, nodes, handles, ParentName(name),
                                           "CHILD_NODE_REMOVED", ChildName(name))
            ELSE d
  IN [nodes |-> EraseNode(nodes, name), d |-> d1]

\* the handles in flight after the node record at name was erased: their
\* NodeData pointer is dangling
MarkFreed(fl, nodesBefore, nodesAfter) ==
  [h \in DOMAIN fl |->
     IF fl[h].node \in DOMAIN nodesBefore /\ fl[h].node \notin DOMAIN nodesAfter
     THEN [fl[h] EXCEPT !.freed = TRUE] ELSE fl[h]]

\* the open handles after the node record at name was erased under them
MarkDangling(handles, nodesBefore, nodesAfter) ==
  [h \in DOMAIN handles |->
     IF handles[h].node \in DOMAIN nodesBefore /\ handles[h].node \notin DOMAIN nodesAfter
     THEN [handles[h] EXCEPT !.dangling = TRUE] ELSE handles[h]]

\* Close up to the mNodeMapMutex block of DestroyHandle: the session and
\* handle checks, RemoveHandleData, node->RemoveHandle
Close(sid, h) ==
  /\ ~aborted
  /\ IF sid \notin DOMAIN mSessionMap THEN Respond(Resp("close", sid, h, "EXPIRED_SESSION"))
     ELSE IF h \notin DOMAIN mHandleMap THEN Respond(Resp("close", sid, h, "INVALID_HANDLE"))
     ELSE IF mHandleMap[h].dangling THEN Abort(Resp("close", sid, h, "ABORT"))
     ELSE
       /\ mHandleMap' = RemoveHandleData(mHandleMap, h)
       /\ mNodeMap' = NodeRemoveHandle(mNodeMap, mHandleMap[h].node, h)
       /\ inflight' = (h :> [node |-> mHandleMap[h].node, freed |-> FALSE,
                             session |-> sid, by |-> "close"]) @@ inflight
       /\ resp' = Resp("close", sid, h, "REMOVED")
       /\ emitted' = <<>>
       /\ UNCHANGED <<now, fs, baseGeneration, mGeneration, mNextHandleNumber,
                      mNextSessionId, mNextEventId, mSessionMap, mSessionHeap, expiry,
                      aborted, priorSessions, auxVars, xattrs>>

\* The mNodeMapMutex block of DestroyHandle for a handle in flight, and the
\* response of Close.  Reading a freed NodeData is undefined: the process
\* dies (crash), or the block runs on what the freed memory held, or
\* node->Close() fails on it and Close reports the error (fail).
DestroyHandleBlock(h, crash, fail) ==
  /\ ~aborted
  /\ h \in DOMAIN inflight
  /\ (crash \/ fail) => inflight[h].freed
  /\ ~(crash /\ fail)
  /\ LET rec  == inflight[h]
         done == IF rec.by = "close" THEN Resp("close", rec.session, h, "OK")
                 ELSE Resp("expire", rec.session, h, "DESTROYED")
         rest == [x \in DOMAIN inflight \ {h} |-> inflight[x]]
         d0   == Delivery(mSessionMap, mNextEventId)
     IN IF crash THEN Abort(Resp(rec.by, rec.session, h, "ABORT"))
        ELSE IF fail THEN
           /\ inflight' = rest
           /\ resp' = Resp(rec.by, rec.session, h, ReportError("EBADF"))
           /\ emitted' = <<>>
           /\ UNCHANGED <<now, fs, baseGeneration, mGeneration, mNextHandleNumber,
                          mNextSessionId, mNextEventId, mSessionMap, mSessionHeap, mHandleMap,
                          mNodeMap, expiry, aborted, priorSessions, auxVars, xattrs>>
        ELSE
           LET r == IF rec.freed
                    THEN DestroyHandleStale(mNodeMap, mHandleMap, d0, rec.node)
                    ELSE DestroyHandle(mNodeMap, mHandleMap, d0, rec.node)
           IN /\ WithinBounds(r.nodes, r.d.next)
              /\ mNodeMap' = r.nodes
              /\ mHandleMap' = MarkDangling(mHandleMap, mNodeMap, r.nodes)
              /\ inflight' = MarkFreed(rest, mNodeMap, r.nodes)
              /\ mSessionMap' = r.d.sess
              /\ mNextEventId' = r.d.next
              /\ emitted' = r.d.out
              /\ resp' = done
              /\ xattrs' = XattrsAfter(xattrs, fs, mNodeMap, fs, mNodeMap')
              /\ UNCHANGED <<now, fs, baseGeneration, mGeneration, mNextHandleNumber,
                             mNextSessionId, mSessionHeap, expiry, aborted, priorSessions, auxVars>>

\* ------------------------------------------------------------------ lock
\* Fsetxattr(node->fd, "lock.generation", ...): reaches the entry at the
\* node's name only while the descriptor's file is still linked there
PersistLockGeneration(f, nodes, name) ==
  IF nodes[name].linked THEN [f EXCEPT ![name].lockGen = nodes[name].lockGeneration] ELSE f

\* a grant that forgets the increment
IncrementLockGenerationSkipped(node) == node

\* handlePtr->node->lockGeneration++ of a grant, in Lock and in ReleaseLock
IncrementLockGeneration(node) == [node EXCEPT !.lockGeneration = @ + 1]

\* Master::LockHandle: the node after handle h takes the lock in mode
LockHandle(node, h, mode) ==
  IF mode = LOCK_MODE_SHARED
  THEN [node EXCEPT !.sharedLockHandles = @ \cup {h}]
  ELSE [node EXCEPT !.exclusiveLockHandle = h]

\* a Lock that ignores tryAcquire and always enqueues a conflicting request
LockDecisionNoTry(node, mode, tryAcquire) ==
  IF node.currentLockMode = LOCK_MODE_EXCLUSIVE THEN "PENDING"
  ELSE IF node.currentLockMode = LOCK_MODE_SHARED /\ mode = LOCK_MODE_EXCLUSIVE THEN "PENDING"
  ELSE IF node.currentLockMode = LOCK_MODE_SHARED /\ node.pendingLockRequests # <<>>
  THEN "PENDING"
  ELSE "GRANT"

\* what Lock does with the request: "BUSY", "PENDING" or "GRANT"
LockDecision(node, mode, tryAcquire) ==
  IF node.currentLockMode = LOCK_MODE_EXCLUSIVE
  THEN IF tryAcquire THEN "BUSY" ELSE "PENDING"
  ELSE IF node.currentLockMode = LOCK_MODE_SHARED /\ mode = LOCK_MODE_EXCLUSIVE
  THEN IF tryAcquire THEN "BUSY" ELSE "PENDING"
  ELSE IF node.currentLockMode = LOCK_MODE_SHARED /\ node.pendingLockRequests # <<>>
  THEN "PENDING"
  ELSE "GRANT"

Lock(sid, h, mode, tryAcquire) ==
  /\ ~aborted
  /\ IF sid \notin DOMAIN mSessionMap THEN Respond(Resp("lock", sid, h, "EXPIRED_SESSION"))
     ELSE IF h \notin DOMAIN mHandleMap THEN Respond(Resp("lock", sid, h, "EXPIRED_SESSION"))
     ELSE IF "LOCK" \notin mHandleMap[h].openFlags
       THEN Respond(Resp("lock", sid, h, "MODE_RESTRICTION"))
     ELSE IF "WRITE" \notin mHandleMap[h].openFlags
       THEN Respond(Resp("lock", sid, h, "MODE_RESTRICTION"))
     ELSE IF mHandleMap[h].dangling THEN Abort(Resp("lock", sid, h, "ABORT"))
     ELSE
       LET name == mHandleMap[h].node
           node == mNodeMap[name]
           decision == LockDecision(node, mode, tryAcquire)
       IN IF decision = "BUSY" THEN Respond(Resp("lock", sid, h, "LOCK_STATUS_BUSY"))
          ELSE IF decision = "PENDING" THEN
            LET nodes1 == [mNodeMap EXCEPT ![name].pendingLockRequests =
                                              Append(@, [handle |-> h, mode |-> mode])]
            IN /\ WithinBounds(nodes1, mNextEventId)
               /\ mNodeMap' = nodes1
               /\ resp' = Resp("lock", sid, h, "LOCK_STATUS_PENDING")
               /\ emitted' = <<>>
               /\ UNCHANGED <<now, fs, baseGeneration, mGeneration, mNextHandleNumber,
                              mNextSessionId, mNextEventId, mSessionMap, mSessionHeap,
                              mHandleMap, expiry, inflight, aborted, priorSessions, auxVars, xattrs>>
          ELSE
            LET notify == ~(mode = LOCK_MODE_SHARED /\ node.sharedLockHandles # {})
                node1  == [IncrementLockGeneration(node) EXCEPT !.currentLockMode = mode]
                node2  == LockHandle(node1, h, mode)
                nodes1 == [mNodeMap EXCEPT ![name] = node2]
                handles == [mHandleMap EXCEPT ![h].locked = TRUE]
                d0     == Delivery(mSessionMap, mNextEventId)
                d1     == IF notify
                          THEN DeliverEventNotifications(d0, nodes1, handles, name,
                                                         "LOCK_ACQUIRED", mode)
                          ELSE d0
            IN /\ WithinBounds(nodes1, d1.next)
               /\ fs' = PersistLockGeneration(fs, nodes1, name)
               /\ mNodeMap' = nodes1
               /\ mHandleMap' = handles
               /\ mSessionMap' = d1.sess
               /\ mNextEventId' = d1.next
               /\ emitted' = d1.out
               /\ resp' = [Resp("lock", sid, h, "LOCK_STATUS_GRANTED")
                             EXCEPT !.gen = node2.lockGeneration]
               /\ xattrs' = XattrsAfter(xattrs, fs, mNodeMap, fs', mNodeMap')
               /\ UNCHANGED <<now, baseGeneration, mGeneration, mNextHandleNumber,
                              mNextSessionId, mSessionHeap, expiry, inflight, aborted, priorSessions, auxVars>>

\* ------------------------------------------------------------------ release
\* the requests ReleaseLock pops: the front one if it is exclusive, else the
\* run of shared requests at the front
RECURSIVE SharedRun(_)
SharedRun(q) ==
  IF q = <<>> \/ Head(q).mode # LOCK_MODE_SHARED THEN <<>>
  ELSE <<Head(q)>> \o SharedRun(Tail(q))

PoppedRequests(q) ==
  IF q = <<>> THEN <<>>
  ELSE IF Head(q).mode = LOCK_MODE_EXCLUSIVE THEN <<Head(q)>>
  ELSE SharedRun(q)

\* nextLockHandles: the popped requests whose handle GetHandleData finds
RECURSIVE NextLockHandles(_, _)
NextLockHandles(popped, handles) ==
  IF popped = <<>> THEN <<>>
  ELSE IF Head(popped).handle \in DOMAIN handles
       THEN <<Head(popped).handle>> \o NextLockHandles(Tail(popped), handles)
       ELSE NextLockHandles(Tail(popped), handles)

\* the loop over nextLockHandles: LockHandleWithNotification for each
RECURSIVE GrantAll(_, _, _, _, _)
GrantAll(st, name, hs, mode, gen) ==
  IF hs = <<>> THEN st
  ELSE LET h == Head(hs)
           nodes1   == [st.nodes EXCEPT ![name] = LockHandle(@, h, mode)]
           handles1 == [st.handles EXCEPT ![h].locked = TRUE]
           d1       == DeliverEventNotification(st.d, handles1, h, mode, gen)
       IN GrantAll([nodes |-> nodes1, handles |-> handles1, d |-> d1],
                   name, Tail(hs), mode, gen)

\* Master::ReleaseLock for handle h.  abort: one of its asserts failed.
ReleaseLock(nodes, handles, d, h) ==
  LET name == handles[h].node
      node == nodes[name]
      same == [nodes |-> nodes, handles |-> handles, d |-> d, abort |-> FALSE]
  IN IF ~handles[h].locked THEN same
     ELSE IF node.exclusiveLockHandle # 0 /\ h # node.exclusiveLockHandle
       THEN [same EXCEPT !.abort = TRUE]
     ELSE IF node.exclusiveLockHandle = 0 /\ h \notin node.sharedLockHandles
       THEN [same EXCEPT !.abort = TRUE]
     ELSE
       LET node1 == IF node.exclusiveLockHandle # 0
                    THEN [node EXCEPT !.exclusiveLockHandle = 0]
                    ELSE [node EXCEPT !.sharedLockHandles = @ \ {h}]
           handles1 == [handles EXCEPT ![h].locked = FALSE]
           nodes1 == [nodes EXCEPT ![name] = node1]
           d1 == IF node1.sharedLockHandles = {}
                 THEN DeliverEventNotifications(d, nodes1, handles1, name, "LOCK_RELEASED", 0)
                 ELSE d
           q        == node1.pendingLockRequests
           popped   == PoppedRequests(q)
           nextMode == IF q = <<>> THEN 0 ELSE Head(q).mode
           next     == NextLockHandles(popped, handles1)
           node2 == [node1 EXCEPT !.currentLockMode = 0,
                                  !.pendingLockRequests = SubSeq(q, Len(popped) + 1, Len(q))]
           nodes2 == [nodes1 EXCEPT ![name] = node2]
       IN IF next = <<>>
          THEN [nodes |-> nodes2, handles |-> handles1, d |-> d1, abort |-> FALSE]
          ELSE IF \E i \in 1..Len(next) : next[i] = h
          THEN [same EXCEPT !.abort = TRUE]
          ELSE
            LET node3  == [IncrementLockGeneration(node2) EXCEPT !.currentLockMode = nextMode]
                nodes3 == [nodes2 EXCEPT ![name] = node3]
                st     == GrantAll([nodes |-> nodes3, handles |-> handles1, d |-> d1],
                                   name, next, nextMode, node3.lockGeneration)
                d2     == DeliverEventNotifications(st.d, st.nodes, st.handles, name,
                                                    "LOCK_ACQUIRED", nextMode)
            IN [nodes |-> st.nodes, handles |-> st.handles, d |-> d2, abort |-> FALSE]

Release(sid, h) ==
  /\ ~aborted
  /\ IF sid \notin DOMAIN mSessionMap THEN Respond(Resp("release", sid, h, "EXPIRED_SESSION"))
     ELSE IF h \notin DOMAIN mHandleMap THEN Respond(Resp("release", sid, h, "EXPIRED_SESSION"))
     ELSE IF mHandleMap[h].dangling THEN Abort(Resp("release", sid, h, "ABORT"))
     ELSE
       LET r == ReleaseLock(mNodeMap, mHandleMap, Delivery(mSessionMap, mNextEventId), h)
           name == mHandleMap[h].node
       IN IF r.abort THEN Abort(Resp("release", sid, h, "ABORT"))
          ELSE /\ WithinBounds(r.nodes, r.d.next)
               /\ fs' = IF r.nodes[name].lockGeneration # mNodeMap[name].lockGeneration
                        THEN PersistLockGeneration(fs, r.nodes, name)
                        ELSE fs
               /\ mNodeMap' = r.nodes
               /\ mHandleMap' = r.handles
               /\ mSessionMap' = r.d.sess
               /\ mNextEventId' = r.d.next
               /\ emitted' = r.d.out
               /\ resp' = Resp("release", sid, h, "OK")
               /\ xattrs' = XattrsAfter(xattrs, fs, mNodeMap, fs', mNodeMap')
               /\ UNCHANGED <<now, baseGeneration, mGeneration, mNextHandleNumber,
                              mNextSessionId, mSessionHeap, expiry, inflight, aborted, priorSessions, auxVars>>

\* ------------------------------------------------------------------ leases
Tick ==
  /\ now < MaxTime
  /\ now' = now + 1
  /\ UNCHANGED <<fs, baseGeneration, mGeneration, mNextHandleNumber, mNextSessionId,
                 mNextEventId, mSessionMap, mSessionHeap, mHandleMap, mNodeMap, expiry, inflight,
                 aborted, resp, emitted, priorSessions, auxVars, xattrs>>

\* SessionData::RenewLease: the session after a renewal at time t
RenewLease(sd, t) == [sd EXCEPT !.expireTime = t + LeaseInterval]

RenewSessionLease(sid) ==
  /\ ~aborted
  /\ SessionMutexFree(sid)
  /\ IF sid \notin DOMAIN mSessionMap
       THEN Respond(Resp("renew", sid, 0, "EXPIRED_SESSION"))
     ELSE IF IsExpired(mSessionMap[sid], now)
       THEN Respond(Resp("renew", sid, 0, "EXPIRED_SESSION"))
     ELSE /\ mSessionMap' = [mSessionMap EXCEPT ![sid] = RenewLease(@, now)]
          /\ resp' = Resp("renew", sid, 0, "OK")
          /\ emitted' = <<>>
          /\ UNCHANGED <<now, fs, baseGeneration, mGeneration, mNextHandleNumber,
                         mNextSessionId, mNextEventId, mSessionHeap, mHandleMap, mNodeMap,
                         expiry, inflight, aborted, priorSessions, auxVars, xattrs>>

\* the top of the heap that make_heap builds with ltSessionData: a session
\* of the heap with the earliest deadline
HeapTop(heap, sessions) ==
  {s \in heap : \A o \in heap : sessions[s].expireTime <= sessions[o].expireTime}

\* an expiry query that returns the top of the heap without asking whether
\* it is expired
NextExpiredSessionUnchecked(heap, sessions, t) == HeapTop(heap, sessions)

\* Master::NextExpiredSession: the sessions it can return
NextExpiredSession(heap, sessions, t) ==
  {s \in HeapTop(heap, sessions) : IsExpired(sessions[s], t)}

\* RemoveExpiredSessions: NextExpiredSession returns s; s->Expire(); lock s->mutex
ExpireBegin ==
  /\ ~aborted
  /\ expiry.session = 0
  /\ \E s \in NextExpiredSession(mSessionHeap, mSessionMap, now) :
       /\ mSessionHeap' = mSessionHeap \ {s}
       /\ mSessionMap' = [mSessionMap EXCEPT ![s].expired = TRUE]
       /\ expiry' = [session |-> s, todo |-> mSessionMap[s].handles]
       /\ resp' = Resp("expire", s, 0, "BEGIN")
  /\ emitted' = <<>>
  /\ UNCHANGED <<now, fs, baseGeneration, mGeneration, mNextHandleNumber, mNextSessionId,
                 mNextEventId, mHandleMap, mNodeMap, inflight, aborted, priorSessions, auxVars, xattrs>>

\* one iteration of the loop over sessionPtr->handles, up to the
\* mNodeMapMutex block of DestroyHandle
ExpireHandle ==
  /\ ~aborted
  /\ expiry.session # 0
  /\ expiry.todo # {}
  /\ \A x \in DOMAIN inflight : inflight[x].by # "expire"
  /\ LET h == Min(expiry.todo) IN
       /\ expiry' = [expiry EXCEPT !.todo = @ \ {h}]
       /\ IF h \notin DOMAIN mHandleMap
          THEN /\ resp' = Resp("expire", expiry.session, h, "INVALID_HANDLE")
               /\ UNCHANGED <<mHandleMap, mNodeMap, inflight, aborted>>
          ELSE IF mHandleMap[h].dangling
          THEN /\ aborted' = TRUE
               /\ resp' = Resp("expire", expiry.session, h, "ABORT")
               /\ UNCHANGED <<mHandleMap, mNodeMap, inflight>>
          ELSE /\ mHandleMap' = RemoveHandleData(mHandleMap, h)
               /\ mNodeMap' = NodeRemoveHandle(mNodeMap, mHandleMap[h].node, h)
               /\ inflight' = (h :> [node |-> mHandleMap[h].node, freed |-> FALSE,
                                     session |-> expiry.session, by |-> "expire"]) @@ inflight
               /\ resp' = Resp("expire", expiry.session, h, "REMOVED")
               /\ UNCHANGED aborted
  /\ emitted' = <<>>
  /\ UNCHANGED <<now, fs, baseGeneration, mGeneration, mNextHandleNumber, mNextSessionId,
                 mNextEventId, mSessionMap, mSessionHeap, priorSessions, auxVars, xattrs>>

\* the loop over the handles ends and the session's mutex is released
ExpireEnd ==
  /\ ~aborted
  /\ expiry.session # 0
  /\ expiry.todo = {}
  /\ \A x \in DOMAIN inflight : inflight[x].by # "expire"
  /\ expiry' = [session |-> 0, todo |-> {}]
  /\ resp' = Resp("expire", expiry.session, 0, "END")
  /\ emitted' = <<>>
  /\ UNCHANGED <<now, fs, baseGeneration, mGeneration, mNextHandleNumber, mNextSessionId,
                 mNextEventId, mSessionMap, mSessionHeap, mHandleMap, mNodeMap, inflight, aborted,
                 priorSessions, auxVars, xattrs>>

\* ------------------------------------------------------------------ mkdir, delete
Mkdir(sid, name) ==
  /\ ~aborted
  /\ LET stat == Stat(fs, name) IN
     IF stat \in {"file", "dir"} THEN Respond(Resp("mkdir", sid, 0, ReportError("EEXIST")))
     ELSE IF ~ParentIsDir(fs, name) THEN Respond(Resp("mkdir", sid, 0, ReportError(stat)))
     ELSE
       LET d0 == Delivery(mSessionMap, mNextEventId)
           d1 == IF HasParentNode(mNodeMap, name)
                 THEN DeliverEventNotifications(d0, mNodeMap, mHandleMap, ParentName(name),
                                                "CHILD_NODE_ADDED", ChildName(name))
                 ELSE d0
       IN /\ WithinBounds(mNodeMap, d1.next)
          /\ fs' = [fs EXCEPT ![name] = [kind |-> "dir", lockGen |-> 0]]
          /\ mSessionMap' = d1.sess
          /\ mNextEventId' = d1.next
          /\ emitted' = d1.out
          /\ resp' = Resp("mkdir", sid, 0, "OK")
          /\ UNCHANGED <<now, baseGeneration, mGeneration, mNextHandleNumber, mNextSessionId,
                         mSessionHeap, mHandleMap, mNodeMap, expiry, inflight, aborted, priorSessions, auxVars, xattrs>>

Delete(sid, name) ==
  /\ ~aborted
  /\ LET stat == Stat(fs, name) IN
     IF stat \notin {"file", "dir"} THEN Respond(Resp("delete", sid, 0, ReportError(stat)))
     ELSE IF stat = "dir" /\ HasChildren(fs, name)
       THEN Respond(Resp("delete", sid, 0, ReportError("ENOTEMPTY")))
     ELSE
       LET d0 == Delivery(mSessionMap, mNextEventId)
           d1 == IF HasParentNode(mNodeMap, name)
                 THEN DeliverEventNotifications(d0, mNodeMap, mHandleMap, ParentName(name),
                                                "CHILD_NODE_REMOVED", ChildName(name))
                 ELSE d0
       IN /\ WithinBounds(mNodeMap, d1.next)
          /\ fs' = [fs EXCEPT ![name] = [kind |-> "none", lockGen |-> 0]]
          \* a descriptor open on the removed entry keeps its file, now unlinked
          /\ mNodeMap' = [p \in DOMAIN mNodeMap |->
                            IF p = name THEN [mNodeMap[p] EXCEPT !.linked = FALSE]
                            ELSE mNodeMap[p]]
          /\ mSessionMap' = d1.sess
          /\ mNextEventId' = d1.next
          /\ emitted' = d1.out
          /\ resp' = Resp("delete", sid, 0, "OK")
          /\ xattrs' = XattrsAfter(xattrs, fs, mNodeMap, fs', mNodeMap')
          /\ UNCHANGED <<now, baseGeneration, mGeneration, mNextHandleNumber, mNextSessionId,
                         mSessionHeap, mHandleMap, expiry, inflight, aborted, priorSessions, auxVars>>

\* ------------------------------------------------------------------ restart
\* Master::Master: the generation the constructor stores, from the xattr it reads
StartupGeneration(xattr) == IF xattr = 0 THEN 1 ELSE xattr + 1

\* The process ends (exit, abort or kill) and a new Master is constructed on
\* the same base directory; only the filesystem survives.
Restart ==
  /\ baseGeneration <= MaxRestarts
  /\ baseGeneration' = StartupGeneration(baseGeneration)
  /\ mGeneration' = StartupGeneration(baseGeneration)
  /\ mNextHandleNumber' = 1
  /\ mNextSessionId' = 1
  /\ mNextEventId' = 1
  /\ mSessionMap' = <<>>
  /\ mSessionHeap' = {}
  /\ mHandleMap' = <<>>
  /\ mNodeMap' = <<>>
  /\ expiry' = [session |-> 0, todo |-> {}]
  /\ inflight' = <<>>
  /\ aborted' = FALSE
  /\ resp' = Resp("restart", 0, 0, "OK")
  /\ emitted' = <<>>
  /\ priorSessions' = priorSessions \cup DOMAIN mSessionMap
  /\ attrInflight' = <<>>
  /\ xattrs' = XattrsAfter(xattrs, fs, mNodeMap, fs, <<>>)
  /\ threads' = [t \in Threads |-> [prog |-> <<>>, held |-> {}]]
  /\ eventReg' = [t \in Workers |-> NoReg]
  /\ UNCHANGED <<now, fs, startPc, startGen, baseLock>>

\* ------------------------------------------------------------------ specifications
Handles == 2..(MaxHandles + 1)

\* The lock manager of one node: one session, two handles on "/d"; lock,
\* release and close in any interleaving.
LockFlagSets == { {"READ"}, {"CREATE", "READ", "WRITE", "LOCK"} }

LockLimit == mNextHandleNumber <= MaxHandles /\ mNextEventId <= MaxEvents

NextLock ==
  \/ (mNextSessionId = 1 /\ CreateSession)
  \/ \E flags \in LockFlagSets : Open(1, <<"d">>, flags, {}) /\ LockLimit'
  \/ \E h \in Handles : Close(1, h)
  \/ \E h \in Handles : DestroyHandleBlock(h, FALSE, FALSE)
  \/ \E h \in Handles, mode \in LockModes, tryAcquire \in BOOLEAN :
       Lock(1, h, mode, tryAcquire) /\ LockLimit'
  \/ \E h \in Handles : Release(1, h) /\ LockLimit'

Spec == Init /\ [][NextLock]_vars

\* ------------------------------------------------------------------ lock claims
\* the handles of the table that hold the lock of node p exclusively: marked
\* locked and not among the shared holders
ExclusiveHolders(p) ==
  {h \in DOMAIN mHandleMap :
     /\ mHandleMap[h].node = p
     /\ mHandleMap[h].locked
     /\ h \notin mNodeMap[p].sharedLockHandles}

\* C1: a node never has an exclusive holder while its shared-holder set is
\* nonempty, and never two distinct handles that both hold the exclusive lock.
LockExclusivity ==
  \A p \in DOMAIN mNodeMap :
    /\ ~(mNodeMap[p].exclusiveLockHandle # 0 /\ mNodeMap[p].sharedLockHandles # {})
    /\ ~(mNodeMap[p].currentLockMode = LOCK_MODE_EXCLUSIVE /\ mNodeMap[p].sharedLockHandles # {})
    /\ Cardinality(ExclusiveHolders(p)) <= 1

\* a request of an open handle waits in the pending queue q
OpenWaiter(q, handles) == \E i \in 1..Len(q) : q[i].handle \in DOMAIN handles

\* the handles that received LOCK_GRANTED in the events ev
GrantedBy(ev) == {ev[i].handle : i \in {j \in 1..Len(ev) : ev[j].kind = "LOCK_GRANTED"}}

\* the step is a Lock call answered GRANTED
LockGrantStep ==
  /\ resp' # resp
  /\ resp'.op = "lock"
  /\ resp'.status = "LOCK_STATUS_GRANTED"

\* C2: FIFO fairness.  A request is granted by Lock directly only when no
\* request of an open handle is waiting in the node's queue, and a release
\* grants a prefix of the queue: no request is granted while an earlier one
\* of an open handle stays queued.
FifoFairness ==
  [][ /\ LockGrantStep =>
           ~OpenWaiter(mNodeMap[mHandleMap[resp'.handle].node].pendingLockRequests, mHandleMap)
      /\ \A p \in DOMAIN mNodeMap \cap DOMAIN mNodeMap' :
           LET q    == mNodeMap[p].pendingLockRequests
               rest == mNodeMap'[p].pendingLockRequests
           IN (emitted' # emitted /\ GrantedBy(emitted') # {} /\ Len(rest) <= Len(q)
               /\ \E i \in 1..Len(emitted') : emitted'[i].node = p /\ emitted'[i].kind = "LOCK_GRANTED")
              => /\ rest = SubSeq(q, Len(q) - Len(rest) + 1, Len(q))
                 /\ \A i \in 1..(Len(q) - Len(rest)) :
                      q[i].handle \in DOMAIN mHandleMap => q[i].handle \in GrantedBy(emitted')
    ]_vars

\* handle h is the only holder of the lock of node p
SoleHolder(nodes, p, h) ==
  \/ nodes[p].exclusiveLockHandle = h
  \/ (nodes[p].exclusiveLockHandle = 0 /\ nodes[p].sharedLockHandles = {h})

IsHolder(nodes, p, h) ==
  nodes[p].exclusiveLockHandle = h \/ h \in nodes[p].sharedLockHandles

\* C4: removing a handle (by close or by expiry) releases the lock it holds:
\* when the only holder of a node's lock leaves the handle table, it stops
\* being a holder, LOCK_RELEASED is emitted and the request of an open handle
\* at the front of the pending queue is granted.
CloseReleasesLock ==
  [][ \A h \in DOMAIN mHandleMap \ DOMAIN mHandleMap' :
        LET p == mHandleMap[h].node
        IN (p \in DOMAIN mNodeMap /\ SoleHolder(mNodeMap, p, h)) =>
             /\ p \in DOMAIN mNodeMap' => ~IsHolder(mNodeMap', p, h)
             /\ \E i \in 1..Len(emitted') : emitted'[i].kind = "LOCK_RELEASED"
             /\ LET q == mNodeMap[p].pendingLockRequests
                IN (q # <<>> /\ Head(q).handle \in DOMAIN mHandleMap' /\ p \in DOMAIN mNodeMap')
                     => IsHolder(mNodeMap', p, Head(q).handle)
    ]_vars

\* C5: the lock mode of a node agrees with its holders: exclusive iff there
\* is an exclusive holder, shared iff the shared-holder set is nonempty, none
\* iff there is no holder.
ModeAgreesWithHolders ==
  \A p \in DOMAIN mNodeMap :
    LET n == mNodeMap[p] IN
    /\ (n.currentLockMode = LOCK_MODE_EXCLUSIVE) <=> (n.exclusiveLockHandle # 0)
    /\ (n.currentLockMode = LOCK_MODE_SHARED) <=> (n.sharedLockHandles # {})
    /\ (n.currentLockMode = 0) <=> (n.exclusiveLockHandle = 0 /\ n.sharedLockHandles = {})

\* C6: an open handle is in exactly one session's handle-set and exactly one
\* node's handle map; a handle whose close has completed is in no session's
\* handle-set, no node's handle map and not in the handle table.
HandleMembership ==
  \A h \in Handles :
    LET inSessions == {s \in DOMAIN mSessionMap : h \in mSessionMap[s].handles}
        inNodes    == {p \in DOMAIN mNodeMap : h \in mNodeMap[p].handleMap}
    IN /\ h \in DOMAIN mHandleMap =>
            Cardinality(inSessions) = 1 /\ Cardinality(inNodes) = 1
       /\ (h \notin DOMAIN mHandleMap /\ h \notin DOMAIN inflight) =>
            inSessions = {} /\ inNodes = {}

\* ------------------------------------------------------------------ generation claims
\* Lock and release over the handles of one node, no handle closed.
GenLimit ==
  /\ mNextHandleNumber <= MaxHandles
  /\ \A p \in DOMAIN mNodeMap : mNodeMap[p].lockGeneration <= MaxGen - 1

NextGen ==
  \/ (mNextSessionId = 1 /\ CreateSession)
  \/ Open(1, <<"d">>, {"CREATE", "READ", "WRITE", "LOCK"}, {}) /\ GenLimit'
  \/ \E h \in Handles, mode \in LockModes : Lock(1, h, mode, FALSE) /\ GenLimit'
  \/ \E h \in Handles : Release(1, h) /\ GenLimit'

SpecGen == Init /\ [][NextGen]_vars

\* the generations the LOCK_GRANTED events of ev report for node p, in order
RECURSIVE GrantedGenerations(_, _)
GrantedGenerations(ev, p) ==
  IF ev = <<>> THEN <<>>
  ELSE IF Head(ev).kind = "LOCK_GRANTED" /\ Head(ev).node = p
       THEN <<Head(ev).arg[2]>> \o GrantedGenerations(Tail(ev), p)
       ELSE GrantedGenerations(Tail(ev), p)

\* the generations the step reports for node p: the GRANTED response of a
\* Lock call, or the LOCK_GRANTED events of a release
ReportedGenerations(p) ==
  IF LockGrantStep /\ mHandleMap[resp'.handle].node = p THEN <<resp'.gen>>
  ELSE IF emitted' # emitted THEN GrantedGenerations(emitted', p)
  ELSE <<>>

TempFlags == {"CREATE", "TEMP", "READ", "WRITE", "LOCK"}

NextTemp ==
  \/ (mNextSessionId = 1 /\ CreateSession)
  \/ Mkdir(1, <<"d">>)
  \/ \E name \in Paths : Delete(1, name)
  \/ Open(1, <<"d">>, {"READ"}, EventKinds)
  \/ Open(1, <<"d", "x">>, TempFlags, {})
  \/ \E h \in Handles : Close(1, h)
  \/ \E h \in Handles, crash, fail \in BOOLEAN : DestroyHandleBlock(h, crash, fail)

SpecTemp == Init /\ [][NextTemp]_vars

\* the CHILD_NODE_REMOVED events of ev that name the node at name
RemovedEvents(ev, name) ==
  {i \in 1..Len(ev) : /\ ev[i].kind = "CHILD_NODE_REMOVED"
                      /\ Len(name) > 1
                      /\ ev[i].node = ParentName(name)
                      /\ ev[i].arg = ChildName(name)}

\* the step finishes the close or the expiry of a handle
TeardownStep ==
  /\ resp' # resp
  /\ resp'.op \in {"close", "expire"}
  /\ DOMAIN inflight' # DOMAIN inflight
  /\ DOMAIN mHandleMap' = DOMAIN mHandleMap

\* C7: reference-counted teardown of an ephemeral node.  The step that
\* finishes the close of its last handle removes the node from the node map
\* and emits CHILD_NODE_REMOVED to the parent exactly once; no other close
\* emits CHILD_NODE_REMOVED for it, the process does not die in a close, and
\* the node of an open handle stays in the map.
EphemeralTeardownOnce ==
  [][ /\ ~aborted'
      /\ \A h \in DOMAIN mHandleMap' : mHandleMap'[h].node \in DOMAIN mNodeMap'
      /\ TeardownStep =>
           \A name \in Paths :
             LET last == /\ name \in DOMAIN mNodeMap
                         /\ mNodeMap[name].ephemeral
                         /\ mNodeMap[name].handleMap = {}
                         /\ \E h \in DOMAIN inflight \ DOMAIN inflight' : inflight[h].node = name
                 n    == Cardinality(RemovedEvents(emitted', name))
             IN /\ last => /\ name \notin DOMAIN mNodeMap'
                           /\ HasParentNode(mNodeMap, name) => n = 1
                /\ ~last => n = 0
    ]_vars

\* ------------------------------------------------------------------ lease claims
\* Sessions open handles on "/d" and renew their leases while the clock
\* advances and the expiry loop runs.
Sessions == 1..MaxSessions

LeaseLimit == mNextHandleNumber <= MaxHandles

NextLease ==
  \/ CreateSession
  \/ Tick
  \/ \E sid \in Sessions : RenewSessionLease(sid)
  \/ \E sid \in Sessions : Open(sid, <<"d">>, {"CREATE", "READ", "WRITE", "LOCK"}, {}) /\ LeaseLimit'
  \/ ExpireBegin
  \/ ExpireHandle
  \/ \E h \in Handles : DestroyHandleBlock(h, FALSE, FALSE)
  \/ ExpireEnd

SpecLease == Init /\ [][NextLease]_vars

\* C8: lease liveness.  The expiry query returns a session only when its
\* deadline has passed, and the expiry loop destroys only handles of sessions
\* whose deadline has passed: a session that renews before each deadline
\* passes is never returned and keeps its handles.
LeaseLiveness ==
  [][ /\ \A s \in mSessionHeap \ mSessionHeap' : mSessionMap[s].expireTime < now
      /\ resp'.op = "expire" =>
           \A h \in DOMAIN mHandleMap \ DOMAIN mHandleMap' :
             /\ mSessionMap[mHandleMap[h].session].expireTime < now
             /\ mHandleMap[h].session \notin mSessionHeap
    ]_vars

\* the expiry loop has expired one session and destroyed its handle while
\* another session, renewed in time, is still in the heap with its handle
RenewedSurvives ==
  /\ resp.op = "expire" /\ resp.status = "END"
  /\ now >= 2
  /\ \E s \in mSessionHeap :
       /\ mSessionMap[s].expireTime >= now
       /\ mSessionMap[s].handles \cap DOMAIN mHandleMap # {}
  /\ \E s \in DOMAIN mSessionMap :
       /\ mSessionMap[s].expired
       /\ mSessionMap[s].handles # {}
       /\ mSessionMap[s].handles \cap DOMAIN mHandleMap = {}

\* C9: a request that carries the id of a session that is unknown or whose
\* lease has expired is answered EXPIRED_SESSION and leaves the handle
\* table, the node map, the files and the sessions as they were.
ExpiredSessionRejected ==
  [][ (/\ resp' # resp
       /\ resp'.op \in {"open", "close", "lock", "release", "renew"}
       /\ \/ resp'.session \notin DOMAIN mSessionMap
          \/ IsExpired(mSessionMap[resp'.session], now))
      => /\ resp'.status = "EXPIRED_SESSION"
         /\ UNCHANGED <<mHandleMap, mNodeMap, fs, mSessionMap, mNextHandleNumber>>
    ]_vars

\* ------------------------------------------------------------------ restart claims
\* Sessions are created and used, and the Master process is restarted on
\* the same base directory.
NextRestart ==
  \/ CreateSession
  \/ \E sid \in Sessions : RenewSessionLease(sid)
  \/ \E sid \in Sessions : Open(sid, <<"d">>, {"CREATE", "READ", "WRITE", "LOCK"}, {}) /\ LeaseLimit'
  \/ \E sid \in Sessions, h \in Handles : Close(sid, h)
  \/ \E h \in Handles : DestroyHandleBlock(h, FALSE, FALSE)
  \/ Restart

SpecRestart == Init /\ [][NextRestart]_vars

\* C10: a restart makes the generation of the base directory strictly
\* greater, and a request that carries a session id issued before a restart
\* is answered EXPIRED_SESSION, also after the new run created sessions.
RestartInvalidatesSessions ==
  [][ /\ baseGeneration' # baseGeneration =>
           baseGeneration' > baseGeneration /\ mGeneration' = baseGeneration'
      /\ (/\ resp' # resp
          /\ resp'.op \in {"open", "close", "lock", "release", "renew"}
          /\ resp'.session \in priorSessions)
         => resp'.status = "EXPIRED_SESSION"
    ]_vars

\* ------------------------------------------------------------------ startup
\* Master::Master step by step, for the processes started on one base
\* directory.  A process that is not running is "idle"; exit(1) leaves it
\* "failed".

\* open(mBaseDir, O_RDONLY)
StartOpen(p) ==
  /\ startPc[p] = "idle"
  /\ startPc' = [startPc EXCEPT ![p] = "opened"]
  /\ UNCHANGED <<now, fs, baseGeneration, mGeneration, mNextHandleNumber, mNextSessionId,
                 mNextEventId, mSessionMap, mSessionHeap, mHandleMap, mNodeMap, expiry,
                 inflight, aborted, resp, emitted, priorSessions, startGen, baseLock, attrInflight, threads, eventReg, xattrs>>

\* a flock that is granted whoever holds the lock
FlockAlways(holder) == TRUE

\* flock(mBaseFd, LOCK_EX | LOCK_NB) succeeds: no other open file
\* description holds the lock
FlockGranted(holder) == holder = 0

\* flock(mBaseFd, LOCK_EX | LOCK_NB), and exit(1) when it fails
StartFlock(p) ==
  /\ startPc[p] = "opened"
  /\ IF FlockGranted(baseLock)
     THEN /\ baseLock' = p
          /\ startPc' = [startPc EXCEPT ![p] = "locked"]
     ELSE /\ startPc' = [startPc EXCEPT ![p] = "failed"]
          /\ UNCHANGED baseLock
  /\ UNCHANGED <<now, fs, baseGeneration, mGeneration, mNextHandleNumber, mNextSessionId,
                 mNextEventId, mSessionMap, mSessionHeap, mHandleMap, mNodeMap, expiry,
                 inflight, aborted, resp, emitted, priorSessions, startGen, attrInflight, threads, eventReg, xattrs>>

\* Getxattr(mBaseDir, "generation", &mGeneration) and the increment
StartReadGeneration(p) ==
  /\ startPc[p] = "locked"
  /\ StartupGeneration(baseGeneration) <= MaxRestarts + 1
  /\ startGen' = [startGen EXCEPT ![p] = StartupGeneration(baseGeneration)]
  /\ startPc' = [startPc EXCEPT ![p] = "read"]
  /\ UNCHANGED <<now, fs, baseGeneration, mGeneration, mNextHandleNumber, mNextSessionId,
                 mNextEventId, mSessionMap, mSessionHeap, mHandleMap, mNodeMap, expiry,
                 inflight, aborted, resp, emitted, priorSessions, baseLock, attrInflight, threads, eventReg, xattrs>>

\* Setxattr(mBaseDir, "generation", &mGeneration): the constructor returns
\* and the new Master serves, with the state the constructor gives it
StartWriteGeneration(p) ==
  /\ startPc[p] = "read"
  /\ baseGeneration' = startGen[p]
  /\ mGeneration' = startGen[p]
  /\ startPc' = [startPc EXCEPT ![p] = "serving"]
  /\ mNextHandleNumber' = 1
  /\ mNextSessionId' = 1
  /\ mNextEventId' = 1
  /\ mSessionMap' = <<>>
  /\ mSessionHeap' = {}
  /\ mHandleMap' = <<>>
  /\ mNodeMap' = <<>>
  /\ expiry' = [session |-> 0, todo |-> {}]
  /\ inflight' = <<>>
  /\ aborted' = FALSE
  /\ resp' = Resp("restart", 0, 0, "OK")
  /\ emitted' = <<>>
  /\ priorSessions' = priorSessions \cup DOMAIN mSessionMap
  /\ attrInflight' = <<>>
  /\ threads' = [t \in Threads |-> [prog |-> <<>>, held |-> {}]]
  /\ eventReg' = [t \in Workers |-> NoReg]
  /\ xattrs' = XattrsAfter(xattrs, fs, mNodeMap, fs, <<>>)
  /\ UNCHANGED <<now, fs, startGen, baseLock>>

\* the process ends (exit, abort or kill): the kernel closes mBaseFd, which
\* releases the flock the process holds
ProcessExit(p) ==
  /\ startPc[p] # "idle"
  /\ startPc' = [startPc EXCEPT ![p] = "idle"]
  /\ startGen' = [startGen EXCEPT ![p] = 0]
  /\ baseLock' = IF baseLock = p THEN 0 ELSE baseLock
  /\ UNCHANGED <<now, fs, baseGeneration, mGeneration, mNextHandleNumber, mNextSessionId,
                 mNextEventId, mSessionMap, mSessionHeap, mHandleMap, mNodeMap, expiry,
                 inflight, aborted, resp, emitted, priorSessions, attrInflight, threads, eventReg, xattrs>>

NextStart ==
  \/ \E p \in Procs : StartOpen(p)
  \/ \E p \in Procs : StartFlock(p)
  \/ \E p \in Procs : StartReadGeneration(p)
  \/ \E p \in Procs : StartWriteGeneration(p)
  \/ \E p \in Procs : ProcessExit(p)
  \/ Tick

SpecStart == Init /\ [][NextStart]_vars

\* the processes that are past the flock of the constructor
PastFlock == {p \in Procs : startPc[p] \in {"locked", "read", "serving"}}

\* C11: singleton.  At most one process is past the startup lock at a time,
\* and it is the one that holds the lock; only that process writes the
\* generation of the base directory, and a process that fails at startup
\* leaves the generation as it was.
Singleton ==
  [][ /\ Cardinality(PastFlock') <= 1
      /\ \A p \in PastFlock' : baseLock' = p
      /\ baseGeneration' # baseGeneration =>
           \E p \in Procs : baseLock = p /\ startPc[p] = "read" /\ startPc'[p] = "serving"
      /\ \A p \in Procs :
           (startPc'[p] = "failed" /\ startPc[p] # "failed") =>
             /\ baseGeneration' = baseGeneration
             /\ startGen'[p] = 0
    ]_vars

\* two processes were started together: one serves with a new generation,
\* the other has failed at the lock
SecondStartFailed ==
  \E p, q \in Procs :
    /\ startPc[p] = "serving" /\ startPc[q] = "failed"
    /\ baseGeneration = 2

\* ------------------------------------------------------------------ attributes
MaxAttrInflight == 2   \* threads inside AttrSet or AttrDel at a time

AttrResp(op, sid, h, status, key, value) ==
  [op |-> op, session |-> sid, handle |-> h, status |-> status, gen |-> 0,
   created |-> FALSE, key |-> key, value |-> value]

\* Fgetxattr(node->fd, key): the value, 0 when the attribute is absent
Fgetxattr(f, x, nodes, p, key) ==
  IF key = "lock.generation" /\ nodes[p].linked THEN f[p].lockGen ELSE x[p][key]

\* Fsetxattr(node->fd, key, value) and Fremovexattr (value 0) on the filesystem
FsetxattrFs(f, nodes, p, key, value) ==
  IF key = "lock.generation" /\ nodes[p].linked THEN [f EXCEPT ![p].lockGen = value] ELSE f

\* the same on the attributes kept in xattrs
FsetxattrX(x, nodes, p, key, value) ==
  IF key = "lock.generation" /\ nodes[p].linked THEN x ELSE [x EXCEPT ![p][key] = value]

AttrUnchanged ==
  UNCHANGED <<now, baseGeneration, mGeneration, mNextHandleNumber, mNextSessionId,
              mSessionMap, mSessionHeap, mHandleMap, mNodeMap, expiry, inflight,
              aborted, priorSessions, startPc, startGen, baseLock, threads, eventReg>>

\* AttrSet up to new EventNamed(mNextEventId++, ...): the session and handle
\* checks, Fsetxattr (exit(1) when it fails), the event id.  fail: the
\* filesystem refuses the attribute (E2BIG, ENOSPC, ENOTSUP).
AttrSetBegin(sid, h, key, value, fail) ==
  /\ ~aborted
  /\ IF sid \notin DOMAIN mSessionMap
       THEN Respond(AttrResp("attrset", sid, h, "EXPIRED_SESSION", key, value))
     ELSE IF h \notin DOMAIN mHandleMap
       THEN Respond(AttrResp("attrset", sid, h, "EXPIRED_SESSION", key, value))
     ELSE IF mHandleMap[h].dangling
       THEN Abort(AttrResp("attrset", sid, h, "ABORT", key, value))
     ELSE IF fail \/ ~mNodeMap[mHandleMap[h].node].fd
       THEN Abort(AttrResp("attrset", sid, h, "EXIT", key, value))
     ELSE
       LET name == mHandleMap[h].node IN
       /\ Len(attrInflight) < MaxAttrInflight
       /\ mNextEventId <= MaxEvents
       /\ fs' = FsetxattrFs(fs, mNodeMap, name, key, value)
       /\ xattrs' = FsetxattrX(xattrs, mNodeMap, name, key, value)
       /\ mNextEventId' = mNextEventId + 1
       /\ attrInflight' = Append(attrInflight,
                                 [op |-> "attrset", kind |-> "ATTR_SET", session |-> sid,
                                  handle |-> h, node |-> name, key |-> key,
                                  value |-> value, id |-> mNextEventId])
       /\ resp' = AttrResp("attrset", sid, h, "STORED", key, value)
       /\ emitted' = <<>>
       /\ AttrUnchanged

\* AttrDel up to new EventNamed(mNextEventId++, ...)
AttrDelBegin(sid, h, key) ==
  /\ ~aborted
  /\ IF sid \notin DOMAIN mSessionMap
       THEN Respond(AttrResp("attrdel", sid, h, "EXPIRED_SESSION", key, 0))
     ELSE IF h \notin DOMAIN mHandleMap
       THEN Respond(AttrResp("attrdel", sid, h, "EXPIRED_SESSION", key, 0))
     ELSE IF mHandleMap[h].dangling
       THEN Abort(AttrResp("attrdel", sid, h, "ABORT", key, 0))
     ELSE IF ~mNodeMap[mHandleMap[h].node].fd
       THEN Respond(AttrResp("attrdel", sid, h, ReportError("EBADF"), key, 0))
     ELSE IF Fgetxattr(fs, xattrs, mNodeMap, mHandleMap[h].node, key) = 0
       THEN Respond(AttrResp("attrdel", sid, h, ReportError("ENOATTR"), key, 0))
     ELSE
       LET name == mHandleMap[h].node IN
       /\ Len(attrInflight) < MaxAttrInflight
       /\ mNextEventId <= MaxEvents
       /\ fs' = FsetxattrFs(fs, mNodeMap, name, key, 0)
       /\ xattrs' = FsetxattrX(xattrs, mNodeMap, name, key, 0)
       /\ mNextEventId' = mNextEventId + 1
       /\ attrInflight' = Append(attrInflight,
                                 [op |-> "attrdel", kind |-> "ATTR_DEL", session |-> sid,
                                  handle |-> h, node |-> name, key |-> key,
                                  value |-> 0, id |-> mNextEventId])
       /\ resp' = AttrResp("attrdel", sid, h, "REMOVED", key, 0)
       /\ emitted' = <<>>
       /\ AttrUnchanged

RemoveAt(q, i) == SubSeq(q, 1, i - 1) \o SubSeq(q, i + 1, Len(q))

\* The rest of AttrSet and AttrDel for the call at position i:
\* DeliverEventNotifications(handlePtr->node, eventPtr) with the event id
\* taken before, and the response.  No mutex orders the calls.
AttrDeliver(i) ==
  /\ ~aborted
  /\ i \in 1..Len(attrInflight)
  /\ LET c == attrInflight[i] IN
     IF c.node \notin DOMAIN mNodeMap
     THEN /\ aborted' = TRUE
          /\ resp' = AttrResp(c.op, c.session, c.handle, "ABORT", c.key, c.value)
          /\ emitted' = <<>>
          /\ UNCHANGED <<now, fs, baseGeneration, mGeneration, mNextHandleNumber,
                         mNextSessionId, mNextEventId, mSessionMap, mSessionHeap,
                         mHandleMap, mNodeMap, expiry, inflight, priorSessions,
                         auxVars, xattrs>>
     ELSE
       LET d == DeliverEventNotifications(Delivery(mSessionMap, c.id), mNodeMap,
                                          mHandleMap, c.node, c.kind, c.key)
       IN /\ mSessionMap' = d.sess
          /\ emitted' = d.out
          /\ resp' = AttrResp(c.op, c.session, c.handle, "OK", c.key, c.value)
          /\ attrInflight' = RemoveAt(attrInflight, i)
          /\ UNCHANGED <<now, fs, baseGeneration, mGeneration, mNextHandleNumber,
                         mNextSessionId, mNextEventId, mSessionHeap, mHandleMap, mNodeMap,
                         expiry, inflight, aborted, priorSessions, startPc, startGen,
                         baseLock, threads, eventReg, xattrs>>

\* Master::AttrGet
AttrGet(sid, h, key) ==
  /\ ~aborted
  /\ IF sid \notin DOMAIN mSessionMap
       THEN Respond(AttrResp("attrget", sid, h, "EXPIRED_SESSION", key, 0))
     ELSE IF h \notin DOMAIN mHandleMap
       THEN Respond(AttrResp("attrget", sid, h, "EXPIRED_SESSION", key, 0))
     ELSE IF mHandleMap[h].dangling
       THEN Abort(AttrResp("attrget", sid, h, "ABORT", key, 0))
     ELSE IF ~mNodeMap[mHandleMap[h].node].fd
       THEN Respond(AttrResp("attrget", sid, h, ReportError("EBADF"), key, 0))
     ELSE
       LET v == Fgetxattr(fs, xattrs, mNodeMap, mHandleMap[h].node, key) IN
       IF v = 0 THEN Respond(AttrResp("attrget", sid, h, ReportError("ENOATTR"), key, 0))
       ELSE Respond(AttrResp("attrget", sid, h, "OK", key, v))

\* ------------------------------------------------------------------ absent handles
HandleLimit == mNextHandleNumber <= 2 /\ mNextEventId <= 3

NextHandle ==
  \/ (mNextSessionId = 1 /\ CreateSession)
  \/ Open(1, <<"d">>, {"CREATE", "READ", "WRITE", "LOCK"}, {"ATTR_SET"}) /\ HandleLimit'
  \/ \E h \in Handles : Close(1, h)
  \/ \E h \in Handles : DestroyHandleBlock(h, FALSE, FALSE)
  \/ \E h \in Handles, key \in AttrKeys, v \in AttrValues :
       AttrSetBegin(1, h, key, v, FALSE) /\ HandleLimit'
  \/ \E h \in Handles, key \in AttrKeys : AttrDelBegin(1, h, key) /\ HandleLimit'
  \/ \E i \in 1..MaxAttrInflight : AttrDeliver(i)
  \/ \E h \in Handles, key \in AttrKeys : AttrGet(1, h, key)
  \/ \E h \in Handles, mode \in LockModes : Lock(1, h, mode, TRUE) /\ HandleLimit'
  \/ \E h \in Handles : Release(1, h) /\ HandleLimit'

SpecHandle == Init /\ [][NextHandle]_vars

\* a handler that takes a handle id is entered with handle id h
HandleOp(h) ==
  \/ Close(1, h)
  \/ \E key \in AttrKeys, v \in AttrValues : AttrSetBegin(1, h, key, v, FALSE)
  \/ \E key \in AttrKeys : AttrGet(1, h, key)
  \/ \E key \in AttrKeys : AttrDelBegin(1, h, key)
  \/ \E mode \in LockModes : Lock(1, h, mode, TRUE)
  \/ Release(1, h)

\* C12: a handle-taking operation (close, attr_set, attr_get, attr_del,
\* lock, release) of a valid session on a handle id that is not in the
\* handle map answers INVALID_HANDLE and changes no state.
AbsentHandleRejected ==
  [][\A h \in Handles :
       (1 \in DOMAIN mSessionMap /\ h \notin DOMAIN mHandleMap /\ HandleOp(h)) =>
         /\ resp'.status = "INVALID_HANDLE"
         /\ UNCHANGED <<fs, xattrs, mSessionMap, mHandleMap, mNodeMap, mNextEventId,
                        mNextHandleNumber, inflight, attrInflight>>
    ]_vars

\* ------------------------------------------------------------------ exclusive create
ExclFlagSets == { {"CREATE", "EXCL", "READ"}, {"CREATE", "READ"}, {"CREATE", "TEMP", "READ"} }

ExclLimit == mNextHandleNumber <= 3 /\ mNextEventId <= 4

NextExcl ==
  \/ (mNextSessionId = 1 /\ CreateSession)
  \/ Mkdir(1, <<"d">>) /\ ExclLimit'
  \/ \E name \in Paths, flags \in ExclFlagSets : Open(1, name, flags, EventKinds) /\ ExclLimit'
  \/ \E h \in Handles : Close(1, h)
  \/ \E h \in Handles : DestroyHandleBlock(h, FALSE, FALSE)
  \/ \E name \in Paths : Delete(1, name) /\ ExclLimit'

SpecExcl == Init /\ [][NextExcl]_vars

\* the node at name exists: it is in the node map or on disk
NodeExists(name) == name \in DOMAIN mNodeMap \/ Stat(fs, name) \in {"file", "dir"}

\* C13: open with CREATE|EXCL on a node that exists, whether or not it is
\* in the node map, answers FILE_EXISTS, returns no handle and changes
\* neither the maps, the counters nor the filesystem.
ExclusiveCreateRefused ==
  [][\A name \in Paths, flags \in ExclFlagSets :
       ( /\ {"CREATE", "EXCL"} \subseteq flags
         /\ 1 \in DOMAIN mSessionMap
         /\ NodeExists(name)
         /\ Open(1, name, flags, EventKinds) ) =>
         /\ resp'.status = "FILE_EXISTS"
         /\ resp'.handle = 0
         /\ emitted' = <<>>
         /\ UNCHANGED <<fs, xattrs, mSessionMap, mHandleMap, mNodeMap, mNextEventId,
                        mNextHandleNumber, inflight>>
    ]_vars

\* open answered FILE_EXISTS for a node that is on disk and not in the node
\* map: the refusal came from open(2) with O_CREAT|O_EXCL
ExclRefusedOnDisk ==
  /\ resp.op = "open" /\ resp.status = "FILE_EXISTS"
  /\ mNodeMap = <<>>
  /\ \E name \in Paths : Stat(fs, name) \in {"file", "dir"}

\* ------------------------------------------------------------------ generation count
\* C14: a node's lock generation equals the number of grants since the node
\* was created: a new node starts with no grant counted, so its first
\* grant reports 1, and every single grant (a GRANTED response, each
\* request granted by a release) advances the generation by one and
\* reports the advanced value.
GenerationCountsGrants ==
  [][ /\ \A p \in DOMAIN mNodeMap' \ DOMAIN mNodeMap :
           resp'.created => mNodeMap'[p].lockGeneration = 0
      /\ \A p \in DOMAIN mNodeMap \cap DOMAIN mNodeMap' :
           LET r == ReportedGenerations(p)
           IN /\ mNodeMap'[p].lockGeneration = mNodeMap[p].lockGeneration + Len(r)
              /\ \A i \in 1..Len(r) : r[i] = mNodeMap[p].lockGeneration + i
    ]_vars

\* ------------------------------------------------------------------ attribute calls
\* One session opens "/d" with handles that watch attribute events, sets,
\* reads and deletes attributes and takes the lock; AttrSet and AttrDel
\* calls run concurrently.
AttrLimit == mNextHandleNumber <= 2 /\ mNextEventId <= 4

NextAttr ==
  \/ (mNextSessionId = 1 /\ CreateSession)
  \/ Open(1, <<"d">>, {"CREATE", "READ", "WRITE", "LOCK"}, {"ATTR_SET", "ATTR_DEL"}) /\ AttrLimit'
  \/ \E h \in Handles, key \in AttrKeys, v \in AttrValues, fail \in BOOLEAN :
       AttrSetBegin(1, h, key, v, fail) /\ AttrLimit'
  \/ \E h \in Handles, key \in AttrKeys : AttrDelBegin(1, h, key) /\ AttrLimit'
  \/ \E i \in 1..MaxAttrInflight : AttrDeliver(i)
  \/ \E h \in Handles, key \in AttrKeys : AttrGet(1, h, key)
  \/ \E h \in Handles, mode \in LockModes : Lock(1, h, mode, TRUE) /\ AttrLimit'
  \/ \E h \in Handles : Release(1, h) /\ AttrLimit'

SpecAttr == Init /\ [][NextAttr]_vars

\* C15: notification ordering.  The notifications queued for a handle carry
\* the events of its node in strictly increasing event-id order, whatever
\* the interleaving of the handlers.
NotificationsInEventOrder ==
  \A s \in DOMAIN mSessionMap :
    LET q == mSessionMap[s].notifications
    IN \A i, j \in 1..Len(q) :
         (i < j /\ q[i].handle = q[j].handle) => q[i].event < q[j].event

\* the step stores value v (0: removes) under key on node p through a
\* handle of the node
AttrStoreStep(p, key, v) ==
  \E h \in DOMAIN mHandleMap :
    /\ mHandleMap[h].node = p
    /\ \/ v # 0 /\ AttrSetBegin(1, h, key, v, FALSE) /\ resp'.status = "STORED"
       \/ v = 0 /\ AttrDelBegin(1, h, key) /\ resp'.status = "REMOVED"

\* C16: attribute round trip.  attr_get answers the value the last
\* successful attr_set stored under the key, and ATTR_NOT_FOUND after
\* attr_del: a successful attr_set or attr_del makes its value the one that
\* is read, no other step changes what is read under any key, and attr_get
\* answers what is stored.
AttributeRoundTrip ==
  [][\A h \in DOMAIN mHandleMap \cap DOMAIN mHandleMap', key \in AttrKeys :
       LET p      == mHandleMap[h].node
           before == Fgetxattr(fs, xattrs, mNodeMap, p, key)
           after  == Fgetxattr(fs', xattrs', mNodeMap', p, key)
       IN (p \in DOMAIN mNodeMap /\ p \in DOMAIN mNodeMap') =>
            /\ \A v \in AttrValues \cup {0} : AttrStoreStep(p, key, v) => after = v
            /\ (\A v \in AttrValues \cup {0} : ~AttrStoreStep(p, key, v)) => after = before
            /\ AttrGet(1, h, key) =>
                 IF before = 0 THEN resp'.status = "ATTR_NOT_FOUND"
                 ELSE resp'.status = "OK" /\ resp'.value = before
    ]_vars

\* ------------------------------------------------------------------ ephemeral and permanent
\* C17: open without TEMP on a node that exists as an ephemeral node fails
\* with FILE_EXISTS and creates no handle.
PermanentOpenOfEphemeralRefused ==
  [][\A name \in Paths, flags \in ExclFlagSets :
       ( /\ "TEMP" \notin flags
         /\ 1 \in DOMAIN mSessionMap
         /\ name \in DOMAIN mNodeMap
         /\ mNodeMap[name].ephemeral
         /\ Open(1, name, flags, EventKinds) ) =>
         /\ resp'.status = "FILE_EXISTS"
         /\ resp'.handle = 0
         /\ mHandleMap' = mHandleMap
    ]_vars

\* One session opens "/d" permanent, ephemeral or without CREATE, closes
\* its handles and deletes the file.
ReopenFlagSets == { {"CREATE", "READ"}, {"CREATE", "TEMP", "READ"}, {"READ"} }

ReopenLimit == mNextHandleNumber <= 4 /\ mNextEventId <= 3

ReopenHandles == 2..5

NextReopen ==
  \/ (mNextSessionId = 1 /\ CreateSession)
  \/ \E flags \in ReopenFlagSets : Open(1, <<"d">>, flags, {}) /\ ReopenLimit'
  \/ \E h \in ReopenHandles : Close(1, h)
  \/ \E h \in ReopenHandles : DestroyHandleBlock(h, FALSE, FALSE)
  \/ Delete(1, <<"d">>) /\ ReopenLimit'

SpecReopen == Init /\ [][NextReopen]_vars

\* C18: a node that an open with CREATE|TEMP created is ephemeral and has
\* no directory entry, and when the last handle of an ephemeral node has
\* been closed the node is gone: an open of the same path without CREATE
\* answers BAD_PATHNAME and gives no handle.
EphemeralGoneAfterClose ==
  [][ /\ \A p \in Paths, flags \in ReopenFlagSets :
           ( /\ {"CREATE", "TEMP"} \subseteq flags
             /\ Open(1, p, flags, {})
             /\ resp'.created ) =>
             /\ mNodeMap'[p].ephemeral
             /\ Stat(fs', p) = "ENOENT"
      /\ \A h \in DOMAIN inflight, p \in Paths :
           ( /\ inflight[h].node = p
             /\ p \in DOMAIN mNodeMap
             /\ mNodeMap[p].ephemeral
             /\ mNodeMap[p].handleMap = {}
             /\ DestroyHandleBlock(h, FALSE, FALSE) ) =>
             (OpenStatus(1, p, {"READ"}))' = "BAD_PATHNAME"
    ]_vars

\* ------------------------------------------------------------------ handler failures
\* the error codes Master::ReportError answers with
ReportedErrors == {"BAD_PATHNAME", "PERMISSION_DENIED", "FILE_EXISTS", "ATTR_NOT_FOUND",
                   "IO_ERROR"}

\* C19: a handler turns a failure of its filesystem call into an error
\* response and the process keeps running: attr_set whose xattr write fails
\* answers with an error code and changes nothing.
AttrSetFailureReported ==
  [][\A h \in DOMAIN mHandleMap, key \in AttrKeys, v \in AttrValues :
       (1 \in DOMAIN mSessionMap /\ AttrSetBegin(1, h, key, v, TRUE)) =>
         /\ ~aborted'
         /\ resp'.status \in ReportedErrors
         /\ UNCHANGED <<fs, xattrs, mNextEventId, attrInflight>>
    ]_vars

\* ------------------------------------------------------------------ mutexes
\* The mutex operations of the handlers, run by concurrent threads.  A
\* mutex is [kind, id]; a handler is the sequence of its acquire and
\* release operations.
MutexSessions == {1, 2}

NodeMapMutex    == [kind |-> "mNodeMapMutex", id |-> 0]
NodeMutex       == [kind |-> "node", id |-> 1]
SessionMapMutex == [kind |-> "mSessionMapMutex", id |-> 0]
SessionMutex(s) == [kind |-> "session", id |-> s]
HandleMapMutex  == [kind |-> "mHandleMapMutex", id |-> 0]

Acq(m) == [op |-> "acq", m |-> m]
Rel(m) == [op |-> "rel", m |-> m]

\* a scoped_lock around a call that takes no other mutex
Locked(m) == <<Acq(m), Rel(m)>>

\* SessionData::AddNotification for a handle of session to (0: no handle
\* has the event in its mask)
Notify(to) == IF to = 0 THEN <<>> ELSE Locked(SessionMutex(to))

\* Master::Open: GetSessionData; the mNodeMapMutex block with CreateHandle,
\* sessionPtr->AddHandle and DeliverEventNotifications
OpenProg(sid, to) ==
  Locked(SessionMapMutex) \o <<Acq(NodeMapMutex)>> \o Locked(HandleMapMutex)
    \o Locked(SessionMutex(sid)) \o Notify(to) \o <<Rel(NodeMapMutex)>>

\* Master::Close: GetSessionData, RemoveHandleData, DestroyHandle
CloseProg(to) ==
  Locked(SessionMapMutex) \o Locked(HandleMapMutex)
    \o <<Acq(NodeMapMutex)>> \o Notify(to) \o <<Rel(NodeMapMutex)>>

\* Master::Lock: GetSessionData, GetHandleData, the node->mutex block
LockProg(to) ==
  Locked(SessionMapMutex) \o Locked(HandleMapMutex)
    \o <<Acq(NodeMutex)>> \o Notify(to) \o <<Rel(NodeMutex)>>

\* Master::Release: GetSessionData, GetHandleData, ReleaseLock with
\* GetHandleData for a popped request and the notifications
ReleaseProg(to, popped) ==
  Locked(SessionMapMutex) \o Locked(HandleMapMutex)
    \o <<Acq(NodeMutex)>> \o Notify(to)
    \o (IF popped THEN Locked(HandleMapMutex) \o Notify(to) ELSE <<>>)
    \o <<Rel(NodeMutex)>>

\* Master::RemoveExpiredSessions for one expired session with one handle:
\* NextExpiredSession, then under sessionPtr->mutex RemoveHandleData and
\* DestroyHandle
ExpireProg(sid, to) ==
  Locked(SessionMapMutex) \o <<Acq(SessionMutex(sid))>> \o Locked(HandleMapMutex)
    \o <<Acq(NodeMapMutex)>> \o Notify(to) \o <<Rel(NodeMapMutex)>>
    \o <<Rel(SessionMutex(sid))>>

WorkerProgs ==
  {OpenProg(sid, to) : sid \in MutexSessions, to \in {0} \cup MutexSessions}
    \cup {CloseProg(to) : to \in {0} \cup MutexSessions}
    \cup {LockProg(to) : to \in {0} \cup MutexSessions}
    \cup {ReleaseProg(to, popped) : to \in {0} \cup MutexSessions, popped \in BOOLEAN}

ExpiryProgs == {ExpireProg(sid, to) : sid \in MutexSessions, to \in {0} \cup MutexSessions}

Owner(m) == {t \in Threads : m \in threads[t].held}

MasterUnchanged ==
  UNCHANGED <<now, fs, baseGeneration, mGeneration, mNextHandleNumber, mNextSessionId,
              mNextEventId, mSessionMap, mSessionHeap, mHandleMap, mNodeMap, expiry,
              inflight, aborted, resp, emitted, priorSessions, startPc, startGen,
              baseLock, attrInflight, eventReg, xattrs>>

\* a thread enters a handler
BeginHandler(t, prog) ==
  /\ threads[t].prog = <<>>
  /\ threads' = [threads EXCEPT ![t].prog = prog]
  /\ MasterUnchanged

\* boost::mutex::scoped_lock lock(m): the thread gets m when no thread
\* holds it (boost::mutex is not recursive)
AcquireMutex(t) ==
  /\ threads[t].prog # <<>>
  /\ Head(threads[t].prog).op = "acq"
  /\ Owner(Head(threads[t].prog).m) = {}
  /\ threads' = [threads EXCEPT ![t].prog = Tail(@),
                                ![t].held = @ \cup {Head(threads[t].prog).m}]
  /\ MasterUnchanged

\* the end of the scope of a scoped_lock
ReleaseMutex(t) ==
  /\ threads[t].prog # <<>>
  /\ Head(threads[t].prog).op = "rel"
  /\ threads' = [threads EXCEPT ![t].prog = Tail(@),
                                ![t].held = @ \ {Head(threads[t].prog).m}]
  /\ MasterUnchanged

NextMutex ==
  \/ \E t \in Workers, prog \in WorkerProgs : BeginHandler(t, prog)
  \/ \E prog \in ExpiryProgs : BeginHandler(ExpiryThread, prog)
  \/ \E t \in Threads : AcquireMutex(t)
  \/ \E t \in Threads : ReleaseMutex(t)

SpecMutex == Init /\ [][NextMutex]_vars

\* the documented order: namespace store, node, session, handle map
Rank(m) ==
  CASE m.kind = "mNodeMapMutex" -> 1
    [] m.kind = "node" -> 2
    [] m.kind \in {"mSessionMapMutex", "session"} -> 3
    [] m.kind = "mHandleMapMutex" -> 4

\* thread t is about to acquire a mutex
Acquiring(t) == threads[t].prog # <<>> /\ Head(threads[t].prog).op = "acq"

\* thread t waits for a mutex that thread u holds
WaitsFor(t, u) == Acquiring(t) /\ Head(threads[t].prog).m \in threads[u].held

\* some threads wait for each other (or one for itself) for ever
Deadlocked ==
  \E t, u, v \in Threads : WaitsFor(t, u) /\ WaitsFor(u, v) /\ WaitsFor(v, t)

\* C20: every thread acquires the mutexes in the one global order
\* (namespace store, node, session, handle map): a thread that acquires a
\* mutex holds only mutexes that come earlier in the order; no thread holds
\* two node mutexes; and no interleaving of open, close, lock, release and
\* the expiry loop leaves threads waiting for each other.
ConsistentLockOrder ==
  /\ \A t \in Threads :
       Acquiring(t) =>
         \A m \in threads[t].held : Rank(m) < Rank(Head(threads[t].prog).m)
  /\ \A t \in Threads :
       Cardinality({m \in threads[t].held : m.kind = "node"}) <= 1
  /\ ~Deadlocked

\* ------------------------------------------------------------------ frame of lock and release
\* Lock with and without try_acquire and release over three handles of one
\* node, one of them opened without LOCK and WRITE; no handle is closed.
FrameLimit ==
  /\ mNextHandleNumber <= 4
  /\ mNextEventId <= 3
  /\ \A p \in DOMAIN mNodeMap : mNodeMap[p].lockGeneration <= 3

NextFrame ==
  \/ (mNextSessionId = 1 /\ CreateSession)
  \/ \E flags \in LockFlagSets : Open(1, <<"d">>, flags, {}) /\ FrameLimit'
  \/ \E h \in Handles, mode \in LockModes, tryAcquire \in BOOLEAN :
       Lock(1, h, mode, tryAcquire) /\ FrameLimit'
  \/ \E h \in Handles : Release(1, h) /\ FrameLimit'

SpecFrame == Init /\ [][NextFrame]_vars

\* the step leaves the node map, the handle table, the sessions' queues, the
\* event counter and the files as they were and creates no event
LockFrame ==
  /\ mNodeMap' = mNodeMap
  /\ mHandleMap' = mHandleMap
  /\ mSessionMap' = mSessionMap
  /\ mNextEventId' = mNextEventId
  /\ fs' = fs
  /\ xattrs' = xattrs
  /\ emitted' = <<>>

\* handle h may lock: it is open with LOCK and WRITE
MayLock(h) ==
  /\ h \in DOMAIN mHandleMap
  /\ {"LOCK", "WRITE"} \subseteq mHandleMap[h].openFlags

\* a request of the given mode conflicts with the node's current mode
Conflicting(node, mode) ==
  \/ node.currentLockMode = LOCK_MODE_EXCLUSIVE
  \/ (node.currentLockMode = LOCK_MODE_SHARED /\ mode = LOCK_MODE_EXCLUSIVE)

\* C21: a lock call answered BUSY (try_acquire against a conflicting mode) or
\* MODE_RESTRICTION (handle opened without LOCK or without WRITE) and a
\* release by a handle that is not marked locked change nothing of the node
\* (mode, holders, pending queue, lock generation) and emit no event; a
\* conflicting lock call without try_acquire is answered PENDING, appends
\* exactly one entry at the tail of the pending queue and changes nothing else.
RefusedLockChangesNothing ==
  [][ \A h \in Handles :
        /\ \A mode \in LockModes, tryAcquire \in BOOLEAN :
             Lock(1, h, mode, tryAcquire) =>
               /\ (h \in DOMAIN mHandleMap /\ ~MayLock(h))
                    => (resp'.status = "MODE_RESTRICTION" /\ LockFrame)
               /\ resp'.status \in {"LOCK_STATUS_BUSY", "MODE_RESTRICTION"} => LockFrame
               /\ (MayLock(h) /\ Conflicting(mNodeMap[mHandleMap[h].node], mode))
                    => LET p == mHandleMap[h].node
                       IN IF tryAcquire
                          THEN resp'.status = "LOCK_STATUS_BUSY" /\ LockFrame
                          ELSE /\ resp'.status = "LOCK_STATUS_PENDING"
                               /\ mNodeMap' =
                                    [mNodeMap EXCEPT ![p].pendingLockRequests =
                                       Append(@, [handle |-> h, mode |-> mode])]
                               /\ mHandleMap' = mHandleMap
                               /\ mSessionMap' = mSessionMap
                               /\ mNextEventId' = mNextEventId
                               /\ fs' = fs
                               /\ emitted' = <<>>
        /\ (Release(1, h) /\ h \in DOMAIN mHandleMap /\ ~mHandleMap[h].locked)
             => (resp'.status = "OK" /\ LockFrame)
    ]_vars

\* a conflicting request was appended behind a request that was already queued
PendingAppendedAtTail ==
  /\ resp.op = "lock"
  /\ resp.status = "LOCK_STATUS_PENDING"
  /\ resp.handle \in DOMAIN mHandleMap
  /\ LET q == mNodeMap[mHandleMap[resp.handle].node].pendingLockRequests
     IN /\ Len(q) >= 2
        /\ Last(q).handle = resp.handle
        /\ mNodeMap[mHandleMap[resp.handle].node].currentLockMode = LOCK_MODE_EXCLUSIVE

\* ------------------------------------------------------------------ writer starvation
\* Three handles on one node: lock without try_acquire and release in any
\* interleaving; the third handle may be closed.
QueueHandles == 2..4

QueueLimit == mNextHandleNumber <= 4 /\ mNextEventId <= 4

NextQueue ==
  \/ (mNextSessionId = 1 /\ CreateSession)
  \/ Open(1, <<"d">>, {"CREATE", "READ", "WRITE", "LOCK"}, {}) /\ QueueLimit'
  \/ Close(1, 4)
  \/ DestroyHandleBlock(4, FALSE, FALSE)
  \/ \E h \in QueueHandles, mode \in LockModes : Lock(1, h, mode, FALSE) /\ QueueLimit'
  \/ \E h \in QueueHandles : Release(1, h) /\ QueueLimit'

SpecQueue == Init /\ [][NextQueue]_vars

\* an exclusive request of an open handle other than h waits in the queue q
ExclusiveWaiter(q, handles, h) ==
  \E i \in 1..Len(q) :
    q[i].mode = LOCK_MODE_EXCLUSIVE /\ q[i].handle \in DOMAIN handles \ {h}

\* C22: no writer starvation.  While an open handle holds a node's lock in
\* shared mode and an exclusive request of an open handle waits in the
\* node's pending queue, a new shared lock request of a third handle is never
\* granted immediately: it is answered PENDING
\* and appended behind the queued requests, so the queued exclusive request
\* is not overtaken.
NoWriterStarvation ==
  [][ \A h \in QueueHandles, tryAcquire \in BOOLEAN :
        (/\ Lock(1, h, LOCK_MODE_SHARED, tryAcquire)
         /\ MayLock(h)
         /\ (mNodeMap[mHandleMap[h].node].sharedLockHandles \cap DOMAIN mHandleMap) \ {h} # {}
         /\ ExclusiveWaiter(mNodeMap[mHandleMap[h].node].pendingLockRequests, mHandleMap, h))
        => /\ resp'.status # "LOCK_STATUS_GRANTED"
           /\ ~tryAcquire =>
                /\ resp'.status = "LOCK_STATUS_PENDING"
                /\ mNodeMap'[mHandleMap[h].node].pendingLockRequests =
                     Append(mNodeMap[mHandleMap[h].node].pendingLockRequests,
                            [handle |-> h, mode |-> LOCK_MODE_SHARED])
    ]_vars

\* ------------------------------------------------------------------ draining the queue
\* the length of the maximal run of shared requests at the head of q
RECURSIVE SharedPrefixLen(_)
SharedPrefixLen(q) ==
  IF q = <<>> \/ Head(q).mode # LOCK_MODE_SHARED THEN 0 ELSE 1 + SharedPrefixLen(Tail(q))

\* the number of requests a drain takes from q: one exclusive request or the
\* shared run at the head
DrainLen(q) ==
  IF q = <<>> THEN 0
  ELSE IF Head(q).mode = LOCK_MODE_EXCLUSIVE THEN 1 ELSE SharedPrefixLen(q)

\* the handles that hold the lock of node p
Holders(nodes, p) ==
  nodes[p].sharedLockHandles \cup
    (IF nodes[p].exclusiveLockHandle = 0 THEN {} ELSE {nodes[p].exclusiveLockHandle})

\* C23: a release drains the pending queue only when the releasing handle was
\* the last holder of the node's lock: while another handle still holds it no
\* request is dequeued or granted.  When the last holder releases, one
\* exclusive request at the head, or the maximal run of shared requests at
\* the head, is dequeued and its open handles are granted together; the
\* requests behind stay queued in their order.
ReleaseDrainsAfterLastHolder ==
  [][ \A h \in QueueHandles :
        (/\ Release(1, h)
         /\ h \in DOMAIN mHandleMap
         /\ mHandleMap[h].locked
         /\ resp'.status = "OK")
        => LET p == mHandleMap[h].node
               q == mNodeMap[p].pendingLockRequests
               rest == mNodeMap'[p].pendingLockRequests
               n == DrainLen(q)
           IN IF Holders(mNodeMap, p) \ {h} # {}
              THEN rest = q /\ GrantedBy(emitted') = {}
              ELSE /\ rest = SubSeq(q, n + 1, Len(q))
                   /\ GrantedBy(emitted') =
                        {q[i].handle : i \in 1..n} \cap DOMAIN mHandleMap
    ]_vars

\* ------------------------------------------------------------------ lock events
\* the events ev contain one of the given kind
Emits(ev, kind) == \E i \in 1..Len(ev) : ev[i].kind = kind

\* C24: lock events follow mode changes.  A lock call that is granted emits
\* LOCK_ACQUIRED exactly when it changes the node's mode (none to shared or
\* none to exclusive) and emits none when a shared grant joins existing
\* shared holders; a release emits LOCK_RELEASED exactly when no holder
\* remains afterwards, never while another handle still holds the lock.
LockEventsFollowModeChanges ==
  [][ \A h \in Handles :
        /\ \A mode \in LockModes, tryAcquire \in BOOLEAN :
             (Lock(1, h, mode, tryAcquire) /\ resp'.status = "LOCK_STATUS_GRANTED")
               => LET p == mHandleMap[h].node
                  IN /\ Emits(emitted', "LOCK_ACQUIRED")
                          <=> mNodeMap'[p].currentLockMode # mNodeMap[p].currentLockMode
                     /\ (mode = LOCK_MODE_SHARED /\ mNodeMap[p].currentLockMode = LOCK_MODE_SHARED)
                          => ~Emits(emitted', "LOCK_ACQUIRED")
        /\ (/\ Release(1, h)
            /\ h \in DOMAIN mHandleMap
            /\ mHandleMap[h].locked
            /\ resp'.status = "OK")
             => (Emits(emitted', "LOCK_RELEASED")
                   <=> Holders(mNodeMap, mHandleMap[h].node) \ {h} = {})
    ]_vars

\* ------------------------------------------------------------------ expiry order
\* C25: expiry ordering.  When the expiry loop processes an expired session,
\* every handle owned by that session has been closed (it is no longer in the
\* handle table) before the session object is marked expired.
HandlesClosedBeforeExpired ==
  [][ \A s \in DOMAIN mSessionMap \cap DOMAIN mSessionMap' :
        (~mSessionMap[s].expired /\ mSessionMap'[s].expired)
          => \A h \in DOMAIN mHandleMap' : mHandleMap'[h].session # s
    ]_vars

\* ------------------------------------------------------------------ expiry query
\* C26: the expiry query returns a session only if its deadline is in the
\* past at the time of the query, removes it from the expiry structure in the
\* same step, and never returns a session twice (a returned session was in
\* the structure, was not returned before, and only newly created sessions
\* enter the structure); whenever a session of the structure is past its
\* deadline the query returns one, and the one returned has the earliest
\* deadline.
ExpiryQuerySound ==
  [][ /\ ExpireBegin =>
           LET s == resp'.session
           IN /\ s \in mSessionHeap
              /\ IsExpired(mSessionMap[s], now)
              /\ ~mSessionMap[s].expired
              /\ mSessionHeap' = mSessionHeap \ {s}
              /\ \A o \in mSessionHeap :
                   mSessionMap[s].expireTime <= mSessionMap[o].expireTime
      /\ \A s \in mSessionHeap' \ mSessionHeap : s \notin DOMAIN mSessionMap
      /\ (/\ ~aborted
          /\ expiry.session = 0
          /\ \E s \in mSessionHeap : IsExpired(mSessionMap[s], now))
           => ENABLED ExpireBegin
    ]_vars

\* the query returned an expired session and left a session that is not yet
\* expired in the structure
ExpiredReturnedLiveKept ==
  /\ resp.op = "expire"
  /\ resp.status = "BEGIN"
  /\ resp.session \notin mSessionHeap
  /\ \E o \in mSessionHeap : ~IsExpired(mSessionMap[o], now)

\* ------------------------------------------------------------------ created and CHILD_NODE_ADDED
\* A directory "/d" watched by one handle and a child "/d/x" that is opened
\* with and without CREATE and TEMP, closed and deleted.
CreateFlagSets == { {"CREATE", "READ"}, {"CREATE", "TEMP", "READ"}, {"READ"} }

CreateLimit == mNextHandleNumber <= 4 /\ mNextEventId <= 4

NextCreate ==
  \/ (mNextSessionId = 1 /\ CreateSession)
  \/ Mkdir(1, <<"d">>) /\ CreateLimit'
  \/ Open(1, <<"d">>, {"READ"}, {"CHILD_NODE_ADDED"}) /\ CreateLimit'
  \/ \E flags \in CreateFlagSets : Open(1, <<"d", "x">>, flags, {}) /\ CreateLimit'
  \/ \E h \in QueueHandles : Close(1, h)
  \/ \E h \in QueueHandles : DestroyHandleBlock(h, FALSE, FALSE)
  \/ Delete(1, <<"d", "x">>) /\ CreateLimit'

SpecCreate == Init /\ [][NextCreate]_vars

\* the node exists: a permanent node while its entry is in the filesystem,
\* an ephemeral node while its record is in the node map
NodeInNamespace(name) ==
  \/ Stat(fs, name) \in {"file", "dir"}
  \/ (name \in DOMAIN mNodeMap /\ mNodeMap[name].ephemeral)

\* the events ev are one CHILD_NODE_ADDED for the child of name, fanned out
\* over the handles of the parent that subscribed to it
ChildAddedTo(ev, name) ==
  /\ Len(ev) = 1
  /\ ev[1].kind = "CHILD_NODE_ADDED"
  /\ ev[1].node = Front(name)
  /\ ev[1].arg = Last(name)
  /\ ev[1].to = {g \in mNodeMap[Front(name)].handleMap :
                   "CHILD_NODE_ADDED" \in mHandleMap[g].eventMask}

\* C27: a successful open reports created = true and emits CHILD_NODE_ADDED
\* with the child name to the parent node exactly when the caller passed
\* CREATE and the node did not exist before the call; an open of an existing
\* node reports created = false and emits no event; the returned handle is
\* bound to the opened node, not to its parent.
CreatedIffNew ==
  [][ \A name \in Paths, flags \in CreateFlagSets \cup {{"READ"}}, mask \in SUBSET {"CHILD_NODE_ADDED"} :
        (Open(1, name, flags, mask) /\ resp'.status = "OK")
          => LET isNew == "CREATE" \in flags /\ ~NodeInNamespace(name)
             IN /\ resp'.created <=> isNew
                /\ IF isNew /\ Len(name) > 1 /\ Front(name) \in DOMAIN mNodeMap
                   THEN ChildAddedTo(emitted', name)
                   ELSE emitted' = <<>>
                /\ mHandleMap'[resp'.handle].node = name
                /\ resp'.handle \in mNodeMap'[name].handleMap
                /\ \A p \in DOMAIN mNodeMap' \ {name} : resp'.handle \notin mNodeMap'[p].handleMap
    ]_vars

\* ------------------------------------------------------------------ fan-out and counting
\* the number of Notifications for event id that wait in the sessions' queues
RECURSIVE CountFor(_, _)
CountFor(q, id) ==
  IF q = <<>> THEN 0
  ELSE (IF Head(q).event = id THEN 1 ELSE 0) + CountFor(Tail(q), id)

RECURSIVE Queued(_, _)
Queued(sids, id) ==
  IF sids = {} THEN 0
  ELSE LET s == CHOOSE x \in sids : TRUE
       IN CountFor(mSessionMap[s].notifications, id) + Queued(sids \ {s}, id)

\* C28: event fan-out and counting.  A node-scoped event is enqueued for
\* exactly the handles of the node's handle map whose event mask includes
\* its kind, and for every event just emitted (node-scoped or a LOCK_GRANTED
\* for one handle) the notification counter equals the number of
\* Notifications enqueued for it and not yet acknowledged.
FanOutCounted ==
  \A i \in 1..Len(emitted) :
    LET ev == emitted[i]
    IN /\ ev.count = Queued(DOMAIN mSessionMap, ev.id)
       /\ (ev.kind # "LOCK_GRANTED" /\ ev.node \in DOMAIN mNodeMap)
            => ev.to = {h \in mNodeMap[ev.node].handleMap \cap DOMAIN mHandleMap :
                          ev.kind \in mHandleMap[h].eventMask}

\* ------------------------------------------------------------------ event ids
\* mNextEventId++ in AttrSet runs under no mutex.  The increment of the plain
\* counter is a read and a write; between them another thread may read the
\* same value.
\* AttrSet of worker t up to the read of mNextEventId
AttrSetLoad(t, sid, h, key, value) ==
  /\ ~aborted
  /\ eventReg[t] = NoReg
  /\ sid \in DOMAIN mSessionMap
  /\ h \in DOMAIN mHandleMap
  /\ ~mHandleMap[h].dangling
  /\ mNodeMap[mHandleMap[h].node].fd
  /\ mNextEventId <= MaxEvents
  /\ LET name == mHandleMap[h].node IN
       /\ fs' = FsetxattrFs(fs, mNodeMap, name, key, value)
       /\ xattrs' = FsetxattrX(xattrs, mNodeMap, name, key, value)
       /\ eventReg' = [eventReg EXCEPT ![t] =
                         [op |-> "attrset", kind |-> "ATTR_SET", session |-> sid,
                          handle |-> h, node |-> name, key |-> key,
                          value |-> value, id |-> mNextEventId]]
       /\ resp' = AttrResp("attrset", sid, h, "STORED", key, value)
       /\ emitted' = <<>>
       /\ UNCHANGED <<now, baseGeneration, mGeneration, mNextHandleNumber, mNextSessionId,
                      mNextEventId, mSessionMap, mSessionHeap, mHandleMap, mNodeMap, expiry,
                      inflight, aborted, priorSessions, startPc, startGen, baseLock,
                      attrInflight, threads>>

\* the write of the incremented value and the construction of the event
\* with the value read
AttrSetStore(t) ==
  /\ ~aborted
  /\ eventReg[t] # NoReg
  /\ Len(attrInflight) < MaxAttrInflight
  /\ mNextEventId' = eventReg[t].id + 1
  /\ attrInflight' = Append(attrInflight, eventReg[t])
  /\ eventReg' = [eventReg EXCEPT ![t] = NoReg]
  /\ UNCHANGED <<now, fs, baseGeneration, mGeneration, mNextHandleNumber, mNextSessionId,
                 mSessionMap, mSessionHeap, mHandleMap, mNodeMap, expiry, inflight, aborted,
                 resp, emitted, priorSessions, startPc, startGen, baseLock, threads, xattrs>>

EventIdLimit == mNextHandleNumber <= 2 /\ mNextEventId <= 4

NextEventId ==
  \/ (mNextSessionId = 1 /\ CreateSession)
  \/ Open(1, <<"d">>, {"CREATE", "READ", "WRITE"}, {"ATTR_SET"}) /\ EventIdLimit'
  \/ \E t \in Workers, value \in AttrValues :
       AttrSetLoad(t, 1, 2, "k", value) /\ EventIdLimit'
  \/ \E t \in Workers : AttrSetStore(t) /\ EventIdLimit'
  \/ \E i \in 1..MaxAttrInflight : AttrDeliver(i)

SpecEventId == Init /\ [][NextEventId]_vars

\* C29: event ids are unique and monotonic under any interleaving of
\* concurrent operations: of the events created and not yet delivered, no
\* two have the same id and one created later has a larger id than one
\* created earlier; and an event that is created has an id no smaller than
\* any id handed out before it.
EventIdsUniqueMonotonic ==
  /\ \A i, j \in 1..Len(attrInflight) :
       i < j => attrInflight[i].id < attrInflight[j].id
  /\ \A i \in 1..Len(attrInflight) : attrInflight[i].id < mNextEventId

\* ------------------------------------------------------------------ fan-out under the node mutex
\* The handlers as sequences of mutex operations and of the accesses to the
\* handle map of the one node: a fan-out iterates it, Open and DestroyHandle
\* change it.
IterBegin   == [op |-> "iter", m |-> NodeMutex]
IterEnd     == [op |-> "iterend", m |-> NodeMutex]
MutateBegin == [op |-> "mutate", m |-> NodeMutex]
MutateEnd   == [op |-> "mutateend", m |-> NodeMutex]

\* Master::DeliverEventNotifications: the loop over node->handleMap with
\* AddNotification for a subscribed handle of session to
FanOut(to) == <<IterBegin>> \o Notify(to) \o <<IterEnd>>

\* NodeData::AddHandle and NodeData::RemoveHandle, taken to lock the node's
\* mutex themselves
ChangeHandleMap == <<Acq(NodeMutex), MutateBegin, MutateEnd, Rel(NodeMutex)>>

\* Master::AttrSet and Master::AttrDel: GetSessionData, GetHandleData, then
\* DeliverEventNotifications on the handle's node under no mutex
AttrSetProg(to) == Locked(SessionMapMutex) \o Locked(HandleMapMutex) \o FanOut(to)

\* Master::Lock granting: LOCK_ACQUIRED fanned out inside the node->mutex block
LockGrantProg(to) ==
  Locked(SessionMapMutex) \o Locked(HandleMapMutex)
    \o <<Acq(NodeMutex)>> \o FanOut(to) \o <<Rel(NodeMutex)>>

\* Master::Open of the node: the mNodeMapMutex block ending in
\* handlePtr->node->AddHandle
OpenAddProg(sid) ==
  Locked(SessionMapMutex) \o <<Acq(NodeMapMutex)>> \o Locked(HandleMapMutex)
    \o Locked(SessionMutex(sid)) \o ChangeHandleMap \o <<Rel(NodeMapMutex)>>

\* Master::Close: RemoveHandleData, then DestroyHandle with
\* node->RemoveHandle before its mNodeMapMutex block
CloseRemoveProg ==
  Locked(SessionMapMutex) \o Locked(HandleMapMutex) \o ChangeHandleMap
    \o Locked(NodeMapMutex)

FanOutProgs ==
  {AttrSetProg(to) : to \in {0, 1}} \cup {LockGrantProg(to) : to \in {0, 1}}
    \cup {OpenAddProg(1), CloseRemoveProg}

\* the thread enters or leaves the loop over the handle map, or the change
\* of the handle map
HandleMapStep(t) ==
  /\ threads[t].prog # <<>>
  /\ Head(threads[t].prog).op \in {"iter", "iterend", "mutate", "mutateend"}
  /\ threads' = [threads EXCEPT ![t].prog = Tail(@)]
  /\ MasterUnchanged

NextFanOut ==
  \/ \E t \in Workers, prog \in FanOutProgs : BeginHandler(t, prog)
  \/ \E t \in Workers : AcquireMutex(t)
  \/ \E t \in Workers : ReleaseMutex(t)
  \/ \E t \in Workers : HandleMapStep(t)

SpecFanOut == Init /\ [][NextFanOut]_vars

\* thread t is inside the loop over the node's handle map
Iterating(t) ==
  /\ \E i \in 1..Len(threads[t].prog) : threads[t].prog[i].op = "iterend"
  /\ \A i \in 1..Len(threads[t].prog) : threads[t].prog[i].op # "iter"

\* thread t is changing the node's handle map
Mutating(t) == threads[t].prog # <<>> /\ Head(threads[t].prog).op = "mutateend"

\* C30: every fan-out of an event over a node's handle map runs while the
\* node's mutex is held, so the loop over the handle map never runs
\* concurrently with an open or close that adds or removes a handle of the
\* node.
FanOutUnderNodeMutex ==
  /\ \A t \in Workers : Iterating(t) => NodeMutex \in threads[t].held
  /\ \A t, u \in Workers : ~(Iterating(t) /\ Mutating(u))

\* ------------------------------------------------------------------ asserts of release
\* the handles a release can be called for: those in the handle table whose
\* node is still there
Releasable == {h \in DOMAIN mHandleMap : ~mHandleMap[h].dangling}

\* C31: in every reachable state a release by any handle of the table passes
\* the asserts of ReleaseLock: a locked handle releasing on a node with an
\* exclusive holder is that holder, a locked handle releasing otherwise is a
\* shared holder, and no handle granted from the pending queue is the
\* releasing handle
ReleaseAssertsHold ==
  ~aborted =>
    \A h \in Releasable :
      ~ReleaseLock(mNodeMap, mHandleMap, Delivery(mSessionMap, mNextEventId), h).abort

\* ------------------------------------------------------------------ lock holders
\* the handle ids node name records as holders of its lock
HolderIds(name) ==
  (IF mNodeMap[name].exclusiveLockHandle # 0
   THEN {mNodeMap[name].exclusiveLockHandle} ELSE {}) \cup mNodeMap[name].sharedLockHandles

\* handle h is in the handle table, open on node name and marked locked
OpenLockedOn(h, name) ==
  /\ h \in DOMAIN mHandleMap
  /\ ~mHandleMap[h].dangling
  /\ mHandleMap[h].node = name
  /\ mHandleMap[h].locked

\* C32: every holder a node records is a handle of the handle table that is
\* open on that node and marked locked, and every handle marked locked is
\* recorded as a holder by its node
NoDanglingLockHolders ==
  ~aborted =>
    /\ \A name \in DOMAIN mNodeMap : \A h \in HolderIds(name) : OpenLockedOn(h, name)
    /\ \A h \in Releasable : mHandleMap[h].locked => h \in HolderIds(mHandleMap[h].node)

\* ------------------------------------------------------------------ stranded waiters
\* the handles of the table with a request in the pending queue of node name
OpenWaiters(name) ==
  {h \in DOMAIN mHandleMap :
     \E i \in 1..Len(mNodeMap[name].pendingLockRequests) :
       mNodeMap[name].pendingLockRequests[i].handle = h}

\* C33: when a release has completed and left a node's lock free, the
\* pending queue of that node holds no request of a handle that is still in
\* the handle table
NoStrandedWaiter ==
  (~aborted /\ resp.op = "release" /\ resp.status = "OK") =>
    \A name \in DOMAIN mNodeMap :
      mNodeMap[name].currentLockMode = 0 => OpenWaiters(name) = {}

\* ------------------------------------------------------------------ handles after expiry
\* the expiry loop has finished processing session s: Expire() has marked it
\* and the loop no longer holds it
ExpiryFinished(s) ==
  /\ s \in DOMAIN mSessionMap
  /\ mSessionMap[s].expired
  /\ expiry.session # s

\* the handles of the handle table that session s owns
OwnedHandles(s) == {h \in DOMAIN mHandleMap : mHandleMap[h].session = s}

\* C34: once the expiry loop has finished processing a session, no handle
\* that session owns is in the handle table or in the handle map of a node
NoHandleAfterExpiry ==
  ~aborted =>
    \A s \in DOMAIN mSessionMap :
      ExpiryFinished(s) =>
        /\ OwnedHandles(s) = {}
        /\ \A name \in DOMAIN mNodeMap :
             \A h \in mNodeMap[name].handleMap :
               h \in DOMAIN mHandleMap => mHandleMap[h].session # s

====
